---------------------------- MODULE Spec2Model ----------------------------
(***************************************************************************)
(* Verification model of the hand-gesture recognition pipeline:            *)
(*   - CameraOperator (src/core/camera_operator.py): the acquisition       *)
(*     thread(s), the single-slot frame queue, get_frame and release, and  *)
(*     the choice of the resolution in _init_camera;                       *)
(*   - GestureDatabase.find_similar_gesture (src/core/gesture_database.py):*)
(*     landmark normalisation and best-match search over the library;      *)
(*   - SignToSpeechApp._handle_gesture_recognition (src/main.py): the      *)
(*     cooldown gate;                                                      *)
(*   - GestureDatabase persistence: start-up on the store file,            *)
(*     _save_gestures, add_gesture, delete_gesture, and the enrollment     *)
(*     _on_add_gesture of src/main.py;                                     *)
(*   - HandTracker._recognize_gesture (src/core/hand_tracker.py): the raw  *)
(*     tag, the window of tags and the vote;                               *)
(*   - SignToSpeechApp._process_frame (src/main.py): frames with two       *)
(*     hands, and the camera toggle with the timer callbacks.              *)
(***************************************************************************)
EXTENDS Integers, Sequences, FiniteSets, TLC

(***************************************************************************)
(* Bounds of the model.                                                    *)
(***************************************************************************)
\* frames the device delivers in one run
MaxFrames == 3
\* reads the device fails in one run
MaxReadFailures == 6

(***************************************************************************)
(* Program constants.                                                      *)
(***************************************************************************)
\* a queue that holds two frames
QueueMaxsizeTwo == 1 + 1
\* Queue(maxsize=1)
QueueMaxsize == 1
\* max_errors = 5
max_errors == 5

VARIABLES
    \* ---- CameraOperator fields
    cap,                 \* None, or the VideoCapture handle [gen, opened]
    frame_queue,         \* Queue(maxsize=1), as a sequence of frames
    running,             \* self.running
    thread,              \* self.thread: 0 (None) or the last thread started
    camera_initialized,  \* threading.Event
    \* ---- control state: process 0 is the main (UI) thread, 1..MaxThreads
    \*      are the acquisition threads running _update_frame
    pc,
    consecutive_errors,  \* local of _update_frame, per thread
    frame,               \* local of _update_frame, per thread
    \* ---- observation (history) variables
    opens,               \* number of VideoCapture handles created so far
    captured,            \* number of frames read successfully so far
    failed,              \* number of reads that failed so far
    init_dev,            \* per caller: the handle its last _init_camera opened
    init_result,         \* per caller: what its last _init_camera returned
    published_from,      \* handles from which a frame has been published
    last_published,      \* the frame of the last completed put
    pubs_since_take,     \* puts completed since get_frame last took a frame
    got_after,           \* puts that preceded the last take of get_frame
    got,                 \* what the last get_frame returned
    stop_requested,      \* release() has executed self.running = False
    released,            \* release() has returned
    \* ---- GestureDatabase and the matcher's inputs and output
    gestures,            \* self.gestures, in dict (insertion) order
    query,               \* the landmarks passed to find_similar_gesture
    threshold,           \* the threshold passed to find_similar_gesture
    result,              \* what find_similar_gesture returned
    \* ---- SignToSpeechApp: the cooldown gate of _handle_gesture_recognition
    current_gesture,     \* self.current_gesture
    last_gesture_time,   \* self.last_gesture_time
    now,                 \* time.time(), in seconds
    matches,             \* history: the matches handed to the gate
    fired,               \* history: the matches whose side effect ran
    \* ---- _normalize_landmarks applied to a landmark set, to the set moved
    \*      by an offset and to the set scaled by a factor
    offset,              \* the offset (x, y, z) added to every point
    factor,              \* the positive scalar every coordinate is multiplied by
    normalized,          \* the three results
    \* ---- GestureDatabase persistence: the store file and the calls
    file,                \* the JSON file at db_path
    db_pc,               \* where the start-up of the database has got to
    file0,               \* history: the file as found at start-up
    last_save,           \* history: the last _save_gestures call
    last_call,           \* history: the last add, delete or enrollment
    calls,               \* history: number of such calls so far
    \* ---- _init_camera: the choice of the resolution on an opened device
    resolutions,         \* config.CAMERA_RESOLUTIONS
    honoured,            \* the device: the resolutions it reports back as set
    device_default,      \* the device: what it reports otherwise
    device_res,          \* the device: what cap.get reports now
    res_i,               \* the position of the for loop in the list
    success,             \* local of _init_camera
    frame_width,         \* self.frame_width
    frame_height,        \* self.frame_height
    requests,            \* history: the resolutions requested with cap.set
    res_pc,              \* where _init_camera has got to
    \* ---- HandTracker._recognize_gesture
    gesture_history,     \* self.gesture_history
    track_input,         \* the landmarks of the last call
    returned,            \* what the last call returned
    raw_log,             \* history: the raw tag of every call, "none" for a
                         \* call that classified nothing
    \* ---- _process_frame on frames showing two hands, executed twice on
    \*      frames that agree on the first hand
    exec_a,              \* first execution: tracker window, gate, outputs
    exec_b,              \* second execution
    hand_frames,         \* history: number of frames processed
    \* ---- the camera toggle and the timer callbacks of _process_frame
    is_camera_running,   \* self.is_camera_running
    after_queue,         \* the _process_frame callbacks pending in the event
                         \* loop, oldest first, each named by the toggle that
                         \* started its chain
    toggles,             \* history: number of toggles
    ticks                \* history: number of timer callbacks run

camVars == <<cap, frame_queue, running, thread, camera_initialized, pc,
             consecutive_errors, frame, opens, captured, failed,
             init_dev, init_result, published_from, last_published, pubs_since_take,
             got_after, got, stop_requested, released>>
dbVars == <<gestures, query, threshold, result>>
gateVars == <<current_gesture, last_gesture_time, now, matches, fired>>
normVars == <<offset, factor, normalized>>
storeVars == <<file, db_pc, file0, last_save, last_call, calls>>
resVars == <<resolutions, honoured, device_default, device_res, res_i,
             success, frame_width, frame_height, requests, res_pc>>
trackVars == <<gesture_history, track_input, returned, raw_log>>
handsVars == <<exec_a, exec_b, hand_frames>>
tickVars == <<is_camera_running, after_queue, toggles, ticks>>
vars == <<camVars, dbVars, gateVars, normVars, storeVars, resVars, trackVars,
          handsVars, tickVars>>

None == "None"
\* self.cap = None
NoCap == [gen |-> 0, opened |-> FALSE]
\* no frame (the None of get_frame, an unassigned local)
NoFrame == [id |-> 0, dev |-> 0]
MainThread == 0
\* every _init_camera call starts one thread: the first call, and one call
\* for each max_errors consecutive failed reads
MaxThreads == 1 + (MaxReadFailures \div max_errors)
Threads == 1..MaxThreads
Procs == {MainThread} \cup Threads

(***************************************************************************)
(* CameraOperator                                                          *)
(***************************************************************************)
\* cap.isOpened() on self.cap
IsOpened == cap # NoCap /\ cap.opened

\* is_opened()
is_opened == IsOpened /\ camera_initialized

\* threads that have been started
Born == {t \in Threads : pc[t] # "unborn"}
\* threading.Thread.is_alive()
IsAlive(t) == pc[t] \notin {"unborn", "done"}

\* __init__: the fields as assigned, the main thread about to run
\* _init_camera
CamInit ==
    /\ cap = NoCap
    /\ frame_queue = <<>>
    /\ running = FALSE
    /\ thread = 0
    /\ camera_initialized = FALSE
    /\ pc = [p \in Procs |-> IF p = MainThread THEN "init_open" ELSE "unborn"]
    /\ consecutive_errors = [t \in Threads |-> 0]
    /\ frame = [t \in Threads |-> NoFrame]
    /\ opens = 0
    /\ captured = 0
    /\ failed = 0
    /\ init_dev = [p \in Procs |-> 0]
    /\ init_result = [p \in Procs |-> None]
    /\ published_from = {}
    /\ last_published = NoFrame
    /\ pubs_since_take = 0
    /\ got_after = 0
    /\ got = NoFrame
    /\ stop_requested = FALSE
    /\ released = FALSE

\* return from _init_camera: to __init__ for the main thread, to the
\* re-initialisation branch of _update_frame for an acquisition thread
\* (False: break; True: consecutive_errors = 0; continue)
InitReturn(p, ok) ==
    /\ init_result' = [init_result EXCEPT ![p] = IF ok THEN "True" ELSE "False"]
    /\ IF p = MainThread
       THEN /\ pc' = [pc EXCEPT ![p] = "idle"]
            /\ UNCHANGED consecutive_errors
       ELSE IF ok
       THEN /\ pc' = [pc EXCEPT ![p] = "loop"]
            /\ consecutive_errors' = [consecutive_errors EXCEPT ![p] = 0]
       ELSE /\ pc' = [pc EXCEPT ![p] = "done"]
            /\ UNCHANGED consecutive_errors

\* a variant that goes on with a handle that did not open
OpenFailedIgnored(handle) == FALSE
\* if not self.cap.isOpened(): logger.error(...); return False
OpenFailed(handle) == ~handle.opened

\* _init_camera, opening the device: self.cap is replaced by a new handle,
\* which the device may or may not open
InitOpen(p) ==
    /\ pc[p] = "init_open"
    /\ \E ok \in BOOLEAN :
        /\ cap' = [gen |-> opens + 1, opened |-> ok]
        /\ opens' = opens + 1
        /\ init_dev' = [init_dev EXCEPT ![p] = opens + 1]
        /\ IF ~OpenFailed(cap')
           THEN /\ pc' = [pc EXCEPT ![p] = "init_start"]
                /\ init_result' = [init_result EXCEPT ![p] = None]
                /\ UNCHANGED consecutive_errors
           ELSE InitReturn(p, FALSE)
    /\ UNCHANGED <<frame_queue, running, thread, camera_initialized, frame,
                   captured, failed, published_from, last_published,
                   pubs_since_take, got_after,
                   got, stop_requested, released>>
    /\ UNCHANGED <<tickVars, trackVars, handsVars, resVars, dbVars, gateVars, normVars, storeVars>>

\* _init_camera, starting the frame grabbing thread
InitStart(p) ==
    /\ pc[p] = "init_start"
    /\ \E t \in Threads :
        /\ pc[t] = "unborn"
        /\ \A u \in Threads : u < t => pc[u] # "unborn"
        /\ running' = TRUE
        /\ thread' = t
        /\ pc' = [pc EXCEPT ![p] = "init_wait", ![t] = "loop"]
    /\ UNCHANGED <<cap, frame_queue, camera_initialized, consecutive_errors,
                   frame, opens, captured, failed, init_dev, init_result,
                   published_from, last_published, pubs_since_take, got_after, got,
                   stop_requested, released>>
    /\ UNCHANGED <<tickVars, trackVars, handsVars, resVars, dbVars, gateVars, normVars, storeVars>>

\* _init_camera, the wait for the first frame: the loop ends when the event
\* is set or 5 seconds have passed; the event then decides the result
InitWait(p) ==
    /\ pc[p] = "init_wait"
    /\ \/ camera_initialized /\ InitReturn(p, TRUE)
       \/ ~camera_initialized /\ InitReturn(p, FALSE)
    /\ UNCHANGED <<cap, frame_queue, running, thread, camera_initialized,
                   frame, opens, captured, failed, init_dev, published_from,
                   last_published, pubs_since_take, got_after, got, stop_requested,
                   released>>
    /\ UNCHANGED <<tickVars, trackVars, handsVars, resVars, dbVars, gateVars, normVars, storeVars>>

\* _update_frame: while self.running
Loop(t) ==
    /\ pc[t] = "loop"
    /\ pc' = [pc EXCEPT ![t] = IF running THEN "read" ELSE "done"]
    /\ UNCHANGED <<cap, frame_queue, running, thread, camera_initialized,
                   consecutive_errors, frame, opens, captured, failed, init_dev,
                   init_result, published_from, last_published,
                   pubs_since_take, got_after, got, stop_requested, released>>
    /\ UNCHANGED <<tickVars, trackVars, handsVars, resVars, dbVars, gateVars, normVars, storeVars>>

\* _update_frame: ret, frame = self.cap.read() succeeded; the error counter
\* is reset and the frame mirrored
ReadOk(t) ==
    /\ pc[t] = "read"
    /\ IsOpened
    /\ captured < MaxFrames
    /\ captured' = captured + 1
    /\ frame' = [frame EXCEPT ![t] = [id |-> captured + 1, dev |-> cap.gen]]
    /\ consecutive_errors' = [consecutive_errors EXCEPT ![t] = 0]
    /\ pc' = [pc EXCEPT ![t] = "drain"]
    /\ UNCHANGED <<cap, frame_queue, running, thread, camera_initialized,
                   opens, failed, init_dev, init_result, published_from,
                   last_published, pubs_since_take, got_after, got, stop_requested,
                   released>>
    /\ UNCHANGED <<tickVars, trackVars, handsVars, resVars, dbVars, gateVars, normVars, storeVars>>

\* a variant that re-opens one failure later
BudgetSpentLate(errors) == errors > max_errors
\* if consecutive_errors >= max_errors
BudgetSpent(errors) == errors >= max_errors

\* _update_frame: the read failed; after max_errors consecutive failures the
\* thread calls _init_camera itself
ReadFail(t) ==
    /\ pc[t] = "read"
    /\ cap # NoCap
    /\ failed < MaxReadFailures
    /\ failed' = failed + 1
    /\ consecutive_errors' =
           [consecutive_errors EXCEPT ![t] = consecutive_errors[t] + 1]
    /\ IF BudgetSpent(consecutive_errors[t] + 1)
       THEN pc' = [pc EXCEPT ![t] = "init_open"]
       ELSE pc' = [pc EXCEPT ![t] = "loop"]
    /\ UNCHANGED <<cap, frame_queue, running, thread, camera_initialized,
                   frame, opens, captured, init_dev, init_result,
                   published_from, last_published, pubs_since_take, got_after, got,
                   stop_requested, released>>
    /\ UNCHANGED <<tickVars, trackVars, handsVars, resVars, dbVars, gateVars, normVars, storeVars>>

\* _update_frame: self.cap is None (release() has run): the read raises, the
\* except clause logs it and the loop goes on
ReadRaise(t) ==
    /\ pc[t] = "read"
    /\ cap = NoCap
    /\ pc' = [pc EXCEPT ![t] = "loop"]
    /\ UNCHANGED <<cap, frame_queue, running, thread, camera_initialized,
                   consecutive_errors, frame, opens, captured, failed, init_dev,
                   init_result, published_from, last_published,
                   pubs_since_take, got_after, got, stop_requested, released>>
    /\ UNCHANGED <<tickVars, trackVars, handsVars, resVars, dbVars, gateVars, normVars, storeVars>>

\* the queue after one round of "while not empty: get_nowait()"
DrainOne(q) == Tail(q)

\* _update_frame: the drain loop; an Empty raised by get_nowait ends it as an
\* empty queue does
Drain(t) ==
    /\ pc[t] = "drain"
    /\ IF frame_queue = <<>>
       THEN /\ pc' = [pc EXCEPT ![t] = "put"]
            /\ UNCHANGED frame_queue
       ELSE /\ frame_queue' = DrainOne(frame_queue)
            /\ UNCHANGED pc
    /\ UNCHANGED <<cap, running, thread, camera_initialized,
                   consecutive_errors, frame, opens, captured, failed, init_dev,
                   init_result, published_from, last_published,
                   pubs_since_take, got_after, got, stop_requested, released>>
    /\ UNCHANGED <<tickVars, trackVars, handsVars, resVars, dbVars, gateVars, normVars, storeVars>>

\* Queue.put blocks while the queue is full
PutWouldBlock == Len(frame_queue) >= QueueMaxsize

\* _update_frame: self.frame_queue.put(frame), then camera_initialized.set()
Put(t) ==
    /\ pc[t] = "put"
    /\ ~PutWouldBlock
    /\ frame_queue' = Append(frame_queue, frame[t])
    /\ camera_initialized' = TRUE
    /\ published_from' = published_from \cup {frame[t].dev}
    /\ last_published' = frame[t]
    /\ pubs_since_take' = pubs_since_take + 1
    /\ pc' = [pc EXCEPT ![t] = "loop"]
    /\ UNCHANGED <<cap, running, thread, consecutive_errors, frame, opens,
                   captured, failed, init_dev, init_result, got_after, got,
                   stop_requested, released>>
    /\ UNCHANGED <<tickVars, trackVars, handsVars, resVars, dbVars, gateVars, normVars, storeVars>>

\* get_frame: if not self.frame_queue.empty()
GetFrameCheck ==
    /\ pc[MainThread] = "idle"
    /\ IF frame_queue = <<>>
       THEN /\ got' = NoFrame
            /\ UNCHANGED pc
       ELSE /\ pc' = [pc EXCEPT ![MainThread] = "gf_get"]
            /\ UNCHANGED got
    /\ UNCHANGED <<cap, frame_queue, running, thread, camera_initialized,
                   consecutive_errors, frame, opens, captured, failed, init_dev,
                   init_result, published_from, last_published,
                   pubs_since_take, got_after, stop_requested, released>>
    /\ UNCHANGED <<tickVars, trackVars, handsVars, resVars, dbVars, gateVars, normVars, storeVars>>

\* Queue.get blocks while the queue is empty
GetWouldBlock == frame_queue = <<>>

\* get_frame: return self.frame_queue.get()
GetFrameGet ==
    /\ pc[MainThread] = "gf_get"
    /\ ~GetWouldBlock
    /\ got' = Head(frame_queue)
    /\ frame_queue' = Tail(frame_queue)
    /\ got_after' = pubs_since_take
    /\ pubs_since_take' = 0
    /\ pc' = [pc EXCEPT ![MainThread] = "idle"]
    /\ UNCHANGED <<cap, running, thread, camera_initialized,
                   consecutive_errors, frame, opens, captured, failed, init_dev,
                   init_result, published_from, last_published,
                   stop_requested, released>>
    /\ UNCHANGED <<tickVars, trackVars, handsVars, resVars, dbVars, gateVars, normVars, storeVars>>

\* release: self.running = False
ReleaseFlag ==
    /\ pc[MainThread] = "idle"
    /\ running' = FALSE
    /\ stop_requested' = TRUE
    /\ pc' = [pc EXCEPT ![MainThread] = "rel_join"]
    /\ UNCHANGED <<cap, frame_queue, thread, camera_initialized,
                   consecutive_errors, frame, opens, captured, failed, init_dev,
                   init_result, published_from, last_published,
                   pubs_since_take, got_after, got, released>>
    /\ UNCHANGED <<tickVars, trackVars, handsVars, resVars, dbVars, gateVars, normVars, storeVars>>

\* release: self.thread.join(timeout=2.0) returns, the thread having ended
\* or the timeout having passed; then the handle is released, self.cap set
\* to None and the event cleared
ReleaseJoin ==
    /\ pc[MainThread] = "rel_join"
    /\ \E timeout \in BOOLEAN :
          timeout \/ thread = 0 \/ ~IsAlive(thread)
    /\ cap' = NoCap
    /\ camera_initialized' = FALSE
    /\ released' = TRUE
    /\ pc' = [pc EXCEPT ![MainThread] = "idle"]
    /\ UNCHANGED <<frame_queue, running, thread, consecutive_errors, frame,
                   opens, captured, failed, init_dev, init_result, published_from,
                   last_published, pubs_since_take, got_after, got, stop_requested>>
    /\ UNCHANGED <<tickVars, trackVars, handsVars, resVars, dbVars, gateVars, normVars, storeVars>>

CamNext ==
    \/ \E p \in Procs : InitOpen(p)
    \/ \E p \in Procs : InitStart(p)
    \/ \E p \in Procs : InitWait(p)
    \/ \E t \in Threads : Loop(t)
    \/ \E t \in Threads : ReadOk(t)
    \/ \E t \in Threads : ReadFail(t)
    \/ \E t \in Threads : ReadRaise(t)
    \/ \E t \in Threads : Drain(t)
    \/ \E t \in Threads : Put(t)
    \/ GetFrameCheck
    \/ GetFrameGet
    \/ ReleaseFlag
    \/ ReleaseJoin

(***************************************************************************)
(* Claims about CameraOperator, checked under Spec.                        *)
(***************************************************************************)
\* a thread is between the start of its drain loop and the end of its put
Publishing(t) == pc[t] \in {"drain", "put"}

\* C1: publishing never blocks the producer: whenever an acquisition thread
\* has drained the queue and is about to put its frame, the queue has room,
\* so the put returns without waiting.
C1_PublishNeverBlocks ==
    \A t \in Threads : pc[t] = "put" => ~PutWouldBlock

\* C2: get_frame never blocks the consumer: whenever get_frame has found the
\* queue non-empty and is about to call get, the queue still holds a frame,
\* so the get returns without waiting.
C2_GetFrameNeverBlocks ==
    pc[MainThread] = "gf_get" => ~GetWouldBlock

C4_InitTrueOnlyAfterOwnFrame ==
    \A p \in Procs : init_result[p] = "True" => init_dev[p] \in published_from

\* C5: once release() has returned, the device handle is released (cap is
\* None) and stays so: no acquisition thread acquires a handle afterwards.
C5_ReleasedCapStaysNone ==
    released => cap = NoCap

\* C6: once release() has set the running flag to False, the flag stays
\* False.
C6_RunningStaysFalse ==
    [][(stop_requested /\ ~running) => ~running']_vars

\* C22: if the device cannot be opened, _init_camera reports failure, no
\* acquisition thread is started and is_opened() is False afterwards: the
\* step of a call whose new handle did not open ends the call with False,
\* starts no thread and leaves is_opened() False; and while self.cap is
\* the unopened handle of the constructor's call, no thread has ever been
\* started and is_opened() is False.
C22_DeviceUnavailable ==
    /\ [](cap.gen = 1 /\ ~cap.opened
            => /\ init_result[MainThread] = "False"
               /\ Born = {}
               /\ thread = 0
               /\ ~is_opened)
    /\ [][\A p \in Procs :
            (pc[p] = "init_open" /\ pc'[p] # "init_open" /\ ~cap'.opened)
            => /\ init_result'[p] = "False"
               /\ pc'[p] \in {"idle", "done"}
               /\ \A t \in Threads : pc[t] = "unborn" => pc'[t] = "unborn"
               /\ thread' = thread
               /\ ~is_opened']_vars

\* C22 witness: the constructor's _init_camera has returned False on a
\* device that did not open; no thread exists and is_opened() is False.
C22_Witness ==
    /\ cap.gen = 1
    /\ ~cap.opened
    /\ init_result[MainThread] = "False"
    /\ pc[MainThread] = "idle"
    /\ Born = {}
    /\ ~is_opened

\* a re-open attempted by an acquisition thread has failed
ReopenFailed == \E t \in Threads : init_result[t] = "False"

\* C24: once a re-open attempted by the acquisition loop has failed, no
\* frame is published and no device is opened any more.
C24_PermanentStop ==
    [][ReopenFailed => (pubs_since_take' # pubs_since_take + 1
                          /\ opens' = opens)]_vars

\* C25: a second or later call of release() returns leaving the state the
\* first call is to leave: running False, cap None, camera_initialized
\* cleared.
C25_ReleaseIdempotent ==
    [][(released /\ pc[MainThread] = "rel_join" /\ pc'[MainThread] = "idle")
       => (~running' /\ cap' = NoCap /\ ~camera_initialized')]_vars

\* the acquisition thread t is inside the _init_camera it called
Reopening(t) == pc[t] \in {"init_open", "init_start", "init_wait"}

\* C26: an acquisition thread attempts a re-open exactly when it has counted
\* 5 consecutive failed reads: the counter never exceeds 5, a thread is in
\* a re-open only with the counter at 5, and a counter at 5 means the
\* re-open is under way or has failed and ended the loop; a failed read
\* adds one to the counter, a successful read and a successful re-open set
\* it to 0, and nothing else changes it.
C26_RetryBudget ==
    /\ [](\A t \in Threads :
            /\ consecutive_errors[t] <= 5
            /\ Reopening(t) => consecutive_errors[t] = 5
            /\ consecutive_errors[t] = 5 => (Reopening(t) \/ pc[t] = "done"))
    /\ [][\A t \in Threads :
            /\ (pc[t] = "read" /\ pc'[t] = "drain")
                  => consecutive_errors'[t] = 0
            /\ (pc[t] = "read" /\ pc'[t] # "read" /\ failed' = failed + 1)
                  => consecutive_errors'[t] = consecutive_errors[t] + 1
            /\ (pc[t] = "init_wait" /\ pc'[t] # "init_wait"
                    /\ init_result'[t] = "True")
                  => (consecutive_errors'[t] = 0 /\ pc'[t] = "loop")
            /\ consecutive_errors'[t] # consecutive_errors[t]
                  => (pc[t] = "read" \/ pc[t] = "init_wait")]_vars

\* C26 witness: a thread has re-opened the device after 5 failed reads, its
\* counter is back at 0 and it has read a frame from the new handle.
C26_Witness ==
    \E t \in Threads :
        /\ init_result[t] = "True"
        /\ consecutive_errors[t] = 0
        /\ failed >= 5
        /\ pc[t] = "drain"
        /\ frame[t].dev = init_dev[t]

\* C27: the frames returned by successive get_frame calls are in strictly
\* increasing capture order: a frame returned right after another one was
\* captured later than it.
C27_FramesInCaptureOrder ==
    [][(pc[MainThread] = "gf_get" /\ pc'[MainThread] = "idle"
            /\ got # NoFrame)
       => got'.id > got.id]_vars

(***************************************************************************)
(* GestureDatabase: _normalize_landmarks and find_similar_gesture.         *)
(*                                                                         *)
(* Coordinates are integers and every quotient is kept as an exact         *)
(* fraction <<numerator, denominator>> with a positive denominator.  The   *)
(* landmark lists of the model are chosen so that every Euclidean norm     *)
(* taken is the root of a perfect square; ISqrt has no value elsewhere.    *)
(***************************************************************************)
\* landmarks per hand, as the detector delivers them
NumLandmarks == 21
\* the number of library entries in a library drawn by MatchInit
MaxLib == 2

RatGT(a, b) == a[1] * b[2] > b[1] * a[2]
RatGE(a, b) == a[1] * b[2] >= b[1] * a[2]
RatEQ(a, b) == a[1] * b[2] = b[1] * a[2]

\* np.linalg.norm of an integer vector whose squared length is a square
ISqrt(n) == CHOOSE r \in 0..n : r * r = n
SumSq(v) == v[1] * v[1] + v[2] * v[2] + v[3] * v[3]

\* the landmark lists of the model: 21 points (x, y, z) each, flattened
MkPose(P(_)) == [j \in 1..(3 * NumLandmarks) |-> P((j - 1) \div 3)[((j - 1) % 3) + 1]]
FistPt(i) == IF i = 0 THEN <<0, 0, 0>> ELSE <<1, 0, 0>>
FistFarPt(i) == IF i = 0 THEN <<3, 1, 0>> ELSE <<5, 1, 0>>
PalmPt(i) == IF i = 0 THEN <<0, 0, 0>> ELSE IF i \in {9, 20} THEN <<1, 0, 0>> ELSE <<2, 0, 0>>
PointUpPt(i) == IF i = 0 THEN <<0, 0, 0>> ELSE IF i \in 5..8 THEN <<3, 0, 0>> ELSE <<1, 0, 0>>
PointWidePt(i) == IF i = 0 THEN <<0, 0, 0>> ELSE IF i \in (5..11) \ {9} THEN <<3, 0, 0>> ELSE IF i = 20 THEN <<1, 3, 4>> ELSE <<1, 0, 0>>
FlatPt(i) == IF i = 20 THEN <<2, 1, 0>> ELSE <<1, 1, 0>>
\* a closed fist
FIST == MkPose(FistPt)
\* the same fist, farther from the camera origin and twice as large
FIST_FAR == MkPose(FistFarPt)
\* an open hand
PALM == MkPose(PalmPt)
\* a fist with the index finger (joints 5..8) raised
POINT_UP == MkPose(PointUpPt)
\* a fist with seven joints (5..8, 10, 11 and 20) displaced
POINT_WIDE == MkPose(PointWidePt)
\* a degenerate hand: every joint but the last on the wrist
FLAT == MkPose(FlatPt)
\* malformed lists: one whose length is no multiple of 3, one of 10 points
SHORT == <<0, 0, 0, 1>>
TEN == [j \in 1..30 |-> IF j > 3 /\ j % 3 = 1 THEN 1 ELSE 0]
EMPTY == <<>>

\* the result of a computation that raised
Raised == [ok |-> FALSE, num |-> <<>>, den |-> 1]

\* _normalize_landmarks: reshape(-1, 3), centre on the wrist, divide by the
\* wrist-to-joint-9 distance when it is positive; the result is the centred
\* integer list num over the common denominator den.  It raises when the
\* length is no multiple of 3 or there is no point 0 or no point 9.
\* a centring that leaves the last point where it is
CenteredButLast(landmarks) ==
    [j \in 1..Len(landmarks) |->
        IF j > Len(landmarks) - 3 THEN landmarks[j]
        ELSE landmarks[j] - landmarks[((j - 1) % 3) + 1]]
\* centered = landmarks - wrist
Centered(landmarks) ==
    [j \in 1..Len(landmarks) |-> landmarks[j] - landmarks[((j - 1) % 3) + 1]]

\* a normaliser that never scales
ScaleNone(centered) == 0
\* scale = np.linalg.norm(centered[9])
Scale(centered) == ISqrt(SumSq(<<centered[28], centered[29], centered[30]>>))

\* a normaliser that divides by the scale whatever it is
DivisorUnguarded(scale) == scale
\* if scale > 0: centered = centered / scale
Divisor(scale) == IF scale > 0 THEN scale ELSE 1

_normalize_landmarks(landmarks) ==
    IF Len(landmarks) % 3 # 0 \/ Len(landmarks) < 30
    THEN Raised
    ELSE LET centered == Centered(landmarks)
             scale == Scale(centered)
         IN [ok |-> TRUE, num |-> centered, den |-> Divisor(scale)]

\* np.linalg.norm(diff.reshape(-1, 3), axis=1): the per-joint distances, as
\* numerators over the common denominator a.den * b.den
Distances(a, b) ==
    [i \in 1..(Len(a.num) \div 3) |->
        ISqrt(SumSq([c \in 1..3 |->
            a.num[3 * (i - 1) + c] * b.den - b.num[3 * (i - 1) + c] * a.den]))]

\* the sequence d without its element at index i
RemoveAt(d, i) == [j \in 1..(Len(d) - 1) |-> IF j < i THEN d[j] ELSE d[j + 1]]
MinIndex(d) == CHOOSE i \in 1..Len(d) : \A j \in 1..Len(d) : d[i] <= d[j]

\* np.partition(distances, k-1)[:k], summed: the sum of the k smallest
RECURSIVE SumSmallest(_, _)
SumSmallest(d, k) ==
    IF k = 0 \/ Len(d) = 0 THEN 0
    ELSE d[MinIndex(d)] + SumSmallest(RemoveAt(d, MinIndex(d)), k - 1)

\* a mean over every distance
TopKAll(n) == n
\* k = max(1, int(len(distances) * 0.8))
TopK(n) == IF (n * 8) \div 10 > 1 THEN (n * 8) \div 10 ELSE 1

\* similarity = 1.0 / (1.0 + avg_distance), avg_distance the mean of the k
\* smallest distances: with S their summed numerators over D, k*D / (k*D + S)
Similarity(a, b) ==
    LET d == Distances(a, b)
        k == TopK(Len(d))
        D == a.den * b.den
    IN <<k * D, k * D + SumSmallest(d, k)>>

\* the body of the try block for one library entry: the stored landmarks are
\* normalised and compared; a stored list that cannot be normalised, or whose
\* length differs from the query's, raises and the entry is skipped
CompareEntry(norm_landmarks, stored) ==
    LET stored_norm == _normalize_landmarks(stored)
    IN IF ~stored_norm.ok \/ Len(stored_norm.num) # Len(norm_landmarks.num)
       THEN [ok |-> FALSE, similarity |-> <<-1, 1>>]
       ELSE [ok |-> TRUE, similarity |-> Similarity(norm_landmarks, stored_norm)]

\* the stored landmark lists and the queries of the model
StoredLandmarks == {FIST, FIST_FAR, PALM, FLAT, SHORT, TEN, EMPTY}
QueryLandmarks == {FIST, FIST_FAR, PALM, POINT_UP, POINT_WIDE, FLAT, TEN, EMPTY}

\* _normalize_landmarks, tabulated over the queries of the model
NormalizeTable == [q \in QueryLandmarks |-> _normalize_landmarks(q)]
\* find_similar_gesture: norm_landmarks = self._normalize_landmarks(landmarks)
NormalizeQuery(landmarks) == NormalizeTable[landmarks]

\* CompareEntry, tabulated over the queries and stored lists of the model
CompareTable ==
    [n \in {x \in {NormalizeQuery(q) : q \in QueryLandmarks} : x.ok},
     stored \in StoredLandmarks |-> CompareEntry(n, stored)]
Compare(norm_landmarks, stored) == CompareTable[norm_landmarks, stored]

\* no match, with the best score the search ended with
NoMatch(score) == [found |-> FALSE, id |-> None, score |-> score]

\* a search that starts from best_score = 1
InitialBestOne == NoMatch(<<1, 1>>)
\* best_match = None, best_score = -1, best_gesture_id = None
InitialBest == NoMatch(<<-1, 1>>)

\* similarity >= best_score: the last of several equal entries wins
BetterOrEqual(similarity, best_score) == RatGE(similarity, best_score)
\* if similarity > best_score
Better(similarity, best_score) == RatGT(similarity, best_score)

\* a loop that a failing comparison ends: the entries after it are not
\* looked at
RECURSIVE SearchFromAborting(_, _, _, _)
SearchFromAborting(lib, i, norm_landmarks, best) ==
    IF i > Len(lib) THEN best
    ELSE LET gesture == lib[i]
             c == Compare(norm_landmarks, gesture.landmarks)
         IN IF Len(gesture.landmarks) = 0
            THEN SearchFromAborting(lib, i + 1, norm_landmarks, best)
            ELSE IF ~c.ok THEN best
            ELSE IF Better(c.similarity, best.score)
            THEN SearchFromAborting(lib, i + 1, norm_landmarks,
                     [found |-> TRUE, id |-> gesture.id, score |-> c.similarity])
            ELSE SearchFromAborting(lib, i + 1, norm_landmarks, best)
\* a loop that keeps the first entry it could compare
RECURSIVE SearchFromKeepFirst(_, _, _, _)
SearchFromKeepFirst(lib, i, norm_landmarks, best) ==
    IF i > Len(lib) THEN best
    ELSE LET gesture == lib[i]
             c == Compare(norm_landmarks, gesture.landmarks)
         IN IF Len(gesture.landmarks) = 0 \/ ~c.ok
            THEN SearchFromKeepFirst(lib, i + 1, norm_landmarks, best)
            ELSE [found |-> TRUE, id |-> gesture.id, score |-> c.similarity]
\* the for loop over self.gestures.items(), from entry i on, best being the
\* best match so far
RECURSIVE SearchFrom(_, _, _, _)
SearchFrom(lib, i, norm_landmarks, best) ==
    IF i > Len(lib) THEN best
    ELSE LET gesture == lib[i]
             c == Compare(norm_landmarks, gesture.landmarks)
         IN IF Len(gesture.landmarks) = 0 \/ ~c.ok
            THEN SearchFrom(lib, i + 1, norm_landmarks, best)
            ELSE IF Better(c.similarity, best.score)
            THEN SearchFrom(lib, i + 1, norm_landmarks,
                     [found |-> TRUE, id |-> gesture.id, score |-> c.similarity])
            ELSE SearchFrom(lib, i + 1, norm_landmarks, best)

\* return best_match if best_score > threshold else None
SelectAbove(best, thr) ==
    IF best.found /\ RatGT(best.score, thr) THEN best ELSE NoMatch(best.score)
\* return best_match if best_score >= threshold else None
Select(best, thr) ==
    IF best.found /\ RatGE(best.score, thr) THEN best ELSE NoMatch(best.score)

\* find_similar_gesture after its first test: normalise the query (None if
\* that raises), search the library, apply the threshold
FindSimilarCore(landmarks, lib, thr) ==
    LET norm_landmarks == NormalizeQuery(landmarks)
    IN IF ~norm_landmarks.ok
       THEN NoMatch(<<-1, 1>>)
       ELSE Select(SearchFrom(lib, 1, norm_landmarks, InitialBest), thr)

\* find_similar_gesture with an empty query replaced by the hand at rest,
\* and no test of the library
FindSimilarDefaulting(landmarks, lib, thr) ==
    FindSimilarCore(IF Len(landmarks) = 0 THEN FLAT ELSE landmarks, lib, thr)

\* find_similar_gesture
find_similar_gesture(landmarks, lib, thr) ==
    IF Len(landmarks) = 0 \/ Len(lib) = 0
    THEN NoMatch(<<-1, 1>>)
    ELSE FindSimilarCore(landmarks, lib, thr)

\* the identifiers and thresholds drawn
GestureIds == {"fist", "palm", "point_up"}
Thresholds == {<<16, 29>>, <<3, 5>>, <<7, 10>>, <<1, 1>>, <<11, 10>>}

\* the libraries of at most MaxLib entries, in dict order, keys unique
Libraries ==
    UNION {{lib \in [1..n -> [id : GestureIds, landmarks : StoredLandmarks]] :
               \A i, j \in 1..n : i # j => lib[i].id # lib[j].id} : n \in 0..MaxLib}

\* no search has run yet
NotRun == [found |-> FALSE, id |-> "NotRun", score |-> <<-1, 1>>]

\* a library as loaded from the store, a query and a threshold
MatchInit ==
    /\ gestures \in Libraries
    /\ query \in QueryLandmarks
    /\ threshold \in Thresholds
    /\ result = NotRun

\* matched_gesture = find_similar_gesture(landmarks, threshold)
FindSimilar ==
    /\ result = NotRun
    /\ result' = find_similar_gesture(query, gestures, threshold)
    /\ UNCHANGED <<gestures, query, threshold>>
    /\ UNCHANGED <<tickVars, trackVars, handsVars, resVars, camVars, gateVars, normVars, storeVars>>

\* the next hand: other landmarks, the library as it is
NextQuery ==
    /\ result # NotRun
    /\ \E q \in QueryLandmarks : query' = q
    /\ result' = NotRun
    /\ UNCHANGED <<gestures, threshold>>
    /\ UNCHANGED <<tickVars, trackVars, handsVars, resVars, camVars, gateVars, normVars, storeVars>>

(***************************************************************************)
(* SignToSpeechApp: the cooldown gate (src/main.py).                       *)
(***************************************************************************)
\* matches handed to the gate in one run
MaxMatches == 3
\* the last second of a run
MaxTime == 18
\* current_time - self.last_gesture_time > 5
Cooldown == 5
\* time.time() counts the seconds since the epoch: at any time the program
\* runs it is more than the cooldown
StartTime == Cooldown + 1

\* __init__: self.last_gesture_time = 0, self.current_gesture = None
GateInit ==
    /\ current_gesture = None
    /\ last_gesture_time = 0
    /\ now = StartTime
    /\ matches = <<>>
    /\ fired = <<>>

\* a gate that opens again at exactly 5 seconds
CooldownExpiredInclusive(current_time) ==
    current_time - last_gesture_time >= Cooldown
\* current_time - self.last_gesture_time > 5
CooldownExpired(current_time) ==
    current_time - last_gesture_time > Cooldown

\* a gate that ignores the identifier
GateOpensOnExpiryOnly(id, current_time) == CooldownExpired(current_time)
\* the condition of _handle_gesture_recognition
GateOpens(id, current_time) ==
    current_gesture # id \/ CooldownExpired(current_time)

\* a gate that never restarts its window
FireStampStale(current_time) == last_gesture_time
\* self.last_gesture_time = current_time
FireStamp(current_time) == current_time

\* a gate that never records the identifier
FireIdKept(id) == current_gesture
\* self.current_gesture = gesture['id']
FireId(id) == id

\* _handle_gesture_recognition(gesture), called by _process_frame with the
\* match of a hand; the side effect is set_recognized_text and speak
HandleGestureRecognition ==
    /\ Len(matches) < MaxMatches
    /\ \E id \in GestureIds :
        /\ matches' = Append(matches, [id |-> id, at |-> now])
        /\ IF GateOpens(id, now)
           THEN /\ current_gesture' = FireId(id)
                /\ last_gesture_time' = FireStamp(now)
                /\ fired' = Append(fired, [id |-> id, at |-> now,
                                           index |-> Len(matches) + 1])
           ELSE UNCHANGED <<current_gesture, last_gesture_time, fired>>
    /\ UNCHANGED now
    /\ UNCHANGED <<tickVars, trackVars, handsVars, resVars, camVars, dbVars, normVars, storeVars>>

\* a second passes
Tick ==
    /\ now < MaxTime
    /\ now' = now + 1
    /\ UNCHANGED <<current_gesture, last_gesture_time, matches, fired>>
    /\ UNCHANGED <<tickVars, trackVars, handsVars, resVars, camVars, dbVars, normVars, storeVars>>

(***************************************************************************)
(* GestureDatabase persistence (src/core/gesture_database.py): the store   *)
(* file, start-up (_ensure_db_exists, load_gestures), _save_gestures,      *)
(* add_gesture, delete_gesture, and the enrollment of src/main.py.         *)
(* A library is a sequence of entries in dict order; an entry carries its  *)
(* key (id), the keys its record holds, and whether it is a JSON object.   *)
(* Landmarks are the integer list over the denominator den.                *)
(***************************************************************************)
\* entries of a store file drawn at start-up
MaxStore == 3
\* add, delete and enrollment calls in one run
MaxCalls == 2
\* usable samples of one enrollment
MaxSamples == 2
\* frames_to_capture = 10
frames_to_capture == 10
\* three time.sleep(1) and ten time.sleep(0.1) pass in one enrollment
EnrollSeconds == 4

\* the four fields _ensure_db_exists requires
RequiredKeys == {"name", "landmarks", "message", "created_at"}

\* a dict key: a text and, for a generated identifier, the time stamp
Key(base, stamp) == [base |-> base, stamp |-> stamp]

\* str.lower() on the names of the model; "*" stands for the emoji of a
\* default name
Lower(name) ==
    CASE name = "* Fist" -> "* fist"
      [] name = "* FIST" -> "* fist"
      [] name = "* Point Up" -> "* point up"
      [] name = "* Palm" -> "* palm"
      [] name = "Wave" -> "wave"
      [] name = "Point Up" -> "point up"
      [] OTHER -> name

\* a default gesture of _get_default_gestures
DefaultGesture(base, name, landmarks) ==
    [id |-> Key(base, 0), dict |-> TRUE, name |-> name,
     keys |-> RequiredKeys \cup {"is_default"}, landmarks |-> landmarks,
     den |-> 1, is_default |-> TRUE]
\* _get_default_gestures(), in the order of the dict literal; the canned
\* landmark arrays are stood for by the model's poses
DefaultGestures ==
    <<DefaultGesture("fist_default", "* Fist", FIST),
      DefaultGesture("point_up_default", "* Point Up", POINT_UP),
      DefaultGesture("palm_default", "* Palm", PALM)>>

\* dict operations on a library
Ids(lib) == {lib[i].id : i \in 1..Len(lib)}
IndexOf(lib, id) == CHOOSE i \in 1..Len(lib) : lib[i].id = id
\* lib[id] = entry
DictSet(lib, id, entry) ==
    IF id \in Ids(lib)
    THEN [lib EXCEPT ![IndexOf(lib, id)] = entry]
    ELSE Append(lib, entry)
\* del lib[id]
DictDel(lib, id) ==
    SelectSeq(lib, LAMBDA e : e.id # id)

\* the store file: absent, not JSON ("corrupt"), JSON that is no object
\* ("nondict"), or a JSON object ("doc") in the wrapped shape
\* {"version": 1, "gestures": {...}} or the legacy flat shape {...}
AbsentFile == [kind |-> "absent", wrapped |-> FALSE, entries |-> <<>>]
CorruptFile == [kind |-> "corrupt", wrapped |-> FALSE, entries |-> <<>>]
NonDictFile == [kind |-> "nondict", wrapped |-> FALSE, entries |-> <<>>]
\* json.dump({"version": 1, "gestures": lib}, f, indent=2)
Doc(lib) == [kind |-> "doc", wrapped |-> TRUE, entries |-> lib]
\* os.path.exists(self.db_path)
Exists(f) == f.kind # "absent"

\* how a call of _save_gestures can end: done, or an exception while the
\* temporary file is written, while the target is removed, or while the
\* temporary file is renamed
SaveOutcomes(f) ==
    {"ok", "temp", "rename"} \cup (IF Exists(f) THEN {"remove"} ELSE {})

\* a save that writes the target file in place
SaveInPlace(f, lib, outcome) ==
    CASE outcome = "ok" -> Doc(lib)
      [] outcome = "temp" -> CorruptFile
      [] outcome = "remove" -> f
      [] outcome = "rename" -> AbsentFile
\* _save_gestures: the target file after the call
SavedFile(f, lib, outcome) ==
    CASE outcome = "ok" -> Doc(lib)
      [] outcome = "temp" -> f
      [] outcome = "remove" -> f
      [] outcome = "rename" -> AbsentFile

\* a save that always reports success
SaveReturnTrue(outcome) == TRUE
\* _save_gestures: return True at the end of the try block, return False in
\* the except block
SaveReturn(outcome) == outcome = "ok"

NoSave == [outcome |-> "none", before |-> AbsentFile, after |-> AbsentFile,
           ret |-> FALSE]
\* the record of one _save_gestures call
SaveRecord(f, lib, outcome) ==
    [outcome |-> outcome, before |-> f, after |-> SavedFile(f, lib, outcome),
     ret |-> SaveReturn(outcome)]

\* _ensure_db_exists, the validation loop: an entry is kept when it is not
\* flagged is_default, has the four fields and a non-empty landmarks list
Flagged(e) == "is_default" \in e.keys /\ e.is_default
Complete(e) == RequiredKeys \subseteq e.keys
Kept(e) == ~Flagged(e) /\ Complete(e) /\ Len(e.landmarks) > 0
\* has_invalid: an entry that is not flagged was skipped
HasInvalid(lib) ==
    \E i \in 1..Len(lib) :
        ~Flagged(lib[i]) /\ (~Complete(lib[i]) \/ Len(lib[i].landmarks) = 0)
\* the default gestures whose lower-cased name no kept entry has
MissingDefaults(kept) ==
    SelectSeq(DefaultGestures,
              LAMBDA d : \A i \in 1..Len(kept) :
                            Lower(kept[i].name) # Lower(d.name))
\* valid_gestures at the end of the loops
ValidGestures(lib) ==
    LET kept == SelectSeq(lib, Kept)
    IN kept \o MissingDefaults(kept)
\* gesture.get('is_default') on an entry that is no JSON object raises
\* AttributeError, which _ensure_db_exists does not catch
RaisesAttributeError(lib) == \E i \in 1..Len(lib) : ~lib[i].dict

\* __init__ of the database is about to run _ensure_db_exists
\* (self.gestures = {}); db_pc then goes "ensure", "load", "app", "ready"
NoCall == [op |-> "none", id |-> Key("", 0), input |-> <<>>, ret |-> None,
           outcome |-> "none", before |-> <<>>]

\* one call of _save_gestures({"version": 1, "gestures": lib}) that ends
\* with the given outcome
Save(lib, outcome) ==
    /\ outcome \in SaveOutcomes(file)
    /\ file' = SavedFile(file, lib, outcome)
    /\ last_save' = SaveRecord(file, lib, outcome)

\* _ensure_db_exists
EnsureDbExists ==
    /\ db_pc = "ensure"
    /\ IF ~Exists(file)
       THEN /\ gestures' = DefaultGestures
            /\ \E outcome \in SaveOutcomes(file) : Save(gestures', outcome)
            /\ db_pc' = "load"
       ELSE IF file.kind # "doc"
       THEN \* json.JSONDecodeError, or ValueError("Invalid database format")
            /\ gestures' = DefaultGestures
            /\ \E outcome \in SaveOutcomes(file) : Save(gestures', outcome)
            /\ db_pc' = "load"
       ELSE IF RaisesAttributeError(file.entries)
       THEN /\ gestures' = file.entries
            /\ db_pc' = "crashed"
            /\ UNCHANGED <<file, last_save>>
       ELSE LET valid_gestures == ValidGestures(file.entries)
            IN /\ gestures' = valid_gestures
               /\ db_pc' = "load"
               /\ IF HasInvalid(file.entries)
                     \/ Len(valid_gestures) # Len(file.entries)
                  THEN \E outcome \in SaveOutcomes(file) :
                          Save(valid_gestures, outcome)
                  ELSE UNCHANGED <<file, last_save>>
    /\ UNCHANGED <<file0, last_call, calls>>
    /\ UNCHANGED <<query, threshold, result>>
    /\ UNCHANGED <<tickVars, trackVars, handsVars, resVars, camVars, gateVars, normVars>>

\* a load_gestures without the fall-back to the defaults
LoadGesturesNoFallback ==
    /\ db_pc = "load"
    /\ gestures' = IF file.kind = "doc" THEN file.entries ELSE <<>>
    /\ db_pc' = "app"
    /\ UNCHANGED <<file, last_save, file0, last_call, calls>>
    /\ UNCHANGED <<query, threshold, result>>
    /\ UNCHANGED <<tickVars, trackVars, handsVars, resVars, camVars, gateVars, normVars>>

\* load_gestures (the definition at the end of the class, which is the one
\* in force)
LoadGestures ==
    /\ db_pc = "load"
    /\ IF file.kind = "doc"
       THEN /\ gestures' = file.entries
            /\ UNCHANGED <<file, last_save>>
       ELSE /\ gestures' = DefaultGestures
            /\ \E outcome \in SaveOutcomes(file) : Save(gestures', outcome)
    /\ db_pc' = "app"
    /\ UNCHANGED <<file0, last_call, calls>>
    /\ UNCHANGED <<query, threshold, result>>
    /\ UNCHANGED <<tickVars, trackVars, handsVars, resVars, camVars, gateVars, normVars>>

\* SignToSpeechApp.__init__: if the file does not exist, an empty database
\* is written; open() may raise
AppEnsureFile ==
    /\ db_pc = "app"
    /\ IF Exists(file)
       THEN /\ db_pc' = "ready"
            /\ UNCHANGED file
       ELSE \E written \in BOOLEAN :
            /\ file' = IF written THEN Doc(<<>>) ELSE file
            /\ db_pc' = IF written THEN "ready" ELSE "app_failed"
    /\ UNCHANGED <<file0, last_save, last_call, calls>>
    /\ UNCHANGED dbVars
    /\ UNCHANGED <<tickVars, trackVars, handsVars, resVars, camVars, gateVars, normVars>>

\* the record add_gesture stores
NewEntry(id, name, landmarks, den) ==
    [id |-> id, dict |-> TRUE, name |-> name, keys |-> RequiredKeys,
     landmarks |-> landmarks, den |-> den, is_default |-> FALSE]

\* bool as Python prints it
PyBool(b) == IF b THEN "True" ELSE "False"

\* add_gesture(gesture_id, name, landmarks, message)
AddGesture(id, name, landmarks) ==
    /\ db_pc = "ready"
    /\ calls < MaxCalls
    /\ calls' = calls + 1
    /\ IF Len(landmarks) = 0
       THEN /\ last_call' = [op |-> "add", id |-> id, input |-> landmarks,
                             ret |-> PyBool(FALSE), outcome |-> "none",
                             before |-> gestures]
            /\ UNCHANGED <<gestures, file, last_save>>
       ELSE /\ gestures' = DictSet(gestures, id,
                                   NewEntry(id, name, landmarks, 1))
            /\ \E outcome \in SaveOutcomes(file) :
                /\ Save(gestures', outcome)
                /\ last_call' = [op |-> "add", id |-> id,
                                 input |-> landmarks,
                                 ret |-> PyBool(SaveReturn(outcome)),
                                 outcome |-> outcome, before |-> gestures]
    /\ UNCHANGED <<db_pc, file0>>
    /\ UNCHANGED <<query, threshold, result>>
    /\ UNCHANGED <<tickVars, trackVars, handsVars, resVars, camVars, gateVars, normVars>>

\* delete_gesture(gesture_id)
DeleteGesture(id) ==
    /\ db_pc = "ready"
    /\ calls < MaxCalls
    /\ calls' = calls + 1
    /\ IF id \in Ids(gestures)
       THEN /\ gestures' = DictDel(gestures, id)
            /\ \E outcome \in SaveOutcomes(file) :
                /\ Save(gestures', outcome)
                /\ last_call' = [op |-> "delete", id |-> id, input |-> <<>>,
                                 ret |-> PyBool(SaveReturn(outcome)),
                                 outcome |-> outcome, before |-> gestures]
       ELSE /\ last_call' = [op |-> "delete", id |-> id, input |-> <<>>,
                             ret |-> PyBool(FALSE), outcome |-> "none",
                             before |-> gestures]
            /\ UNCHANGED <<gestures, file, last_save>>
    /\ UNCHANGED <<db_pc, file0>>
    /\ UNCHANGED <<query, threshold, result>>
    /\ UNCHANGED <<tickVars, trackVars, handsVars, resVars, camVars, gateVars, normVars>>

\* sum(x) for the column j of zip(*landmarks_list)
RECURSIVE ColumnSum(_, _, _)
ColumnSum(landmarks_list, j, n) ==
    IF n = 0 THEN 0
    ELSE landmarks_list[n][j] + ColumnSum(landmarks_list, j, n - 1)
\* the length of the shortest sample: zip stops there
RECURSIVE ShortestLen(_, _)
ShortestLen(landmarks_list, n) ==
    IF n = 1 THEN Len(landmarks_list[1])
    ELSE LET m == ShortestLen(landmarks_list, n - 1)
         IN IF Len(landmarks_list[n]) < m THEN Len(landmarks_list[n]) ELSE m
\* avg_landmarks = [sum(x) / len(x) for x in zip(*landmarks_list)], as the
\* list of sums over the denominator len(landmarks_list)
AverageSums(landmarks_list) ==
    IF Len(landmarks_list) = 0 THEN <<>>
    ELSE [j \in 1..ShortestLen(landmarks_list, Len(landmarks_list)) |->
             ColumnSum(landmarks_list, j, Len(landmarks_list))]

\* f"gesture_{gesture_name.lower().replace(' ', '_')}"
GestureIdBase(name) ==
    CASE name = "Wave" -> "gesture_wave"
      [] name = "Point Up" -> "gesture_point_up"
      [] OTHER -> "gesture_"

\* the names a user enrolls and the landmark lists the tracker delivers
EnrollNames == {"Wave", "Point Up"}
SampleLandmarks == {FIST, PALM}
SampleLists ==
    UNION {[1..n -> SampleLandmarks] :
              n \in 0..(IF MaxSamples < frames_to_capture
                        THEN MaxSamples ELSE frames_to_capture)}

\* a variant that lets an enrollment without samples through
NoSamplesAccepted(landmarks_list) == FALSE
\* if not landmarks_list: show_error(...); return
NoSamples(landmarks_list) == Len(landmarks_list) = 0

\* _on_add_gesture with the camera running: the frames that yield
\* landmarks are collected, averaged and stored under a generated
\* identifier; self.gesture_db.save_gestures() then raises AttributeError
\* (GestureDatabase has no such method), so nothing is written
OnAddGesture ==
    /\ db_pc = "ready"
    /\ calls < MaxCalls
    /\ calls' = calls + 1
    /\ now' = now + EnrollSeconds
    /\ \E gesture_name \in EnrollNames, landmarks_list \in SampleLists :
        LET gesture_id == Key(GestureIdBase(gesture_name), now')
        IN IF NoSamples(landmarks_list)
           THEN /\ last_call' = [op |-> "enroll", id |-> gesture_id,
                                 input |-> landmarks_list, ret |-> None,
                                 outcome |-> "none", before |-> gestures]
                /\ UNCHANGED gestures
           ELSE /\ gestures' =
                       DictSet(gestures, gesture_id,
                               NewEntry(gesture_id, gesture_name,
                                        AverageSums(landmarks_list),
                                        Len(landmarks_list)))
                /\ last_call' = [op |-> "enroll", id |-> gesture_id,
                                 input |-> landmarks_list,
                                 ret |-> "AttributeError",
                                 outcome |-> "none", before |-> gestures]
    /\ UNCHANGED <<file, last_save, db_pc, file0>>
    /\ UNCHANGED <<query, threshold, result>>
    /\ UNCHANGED <<current_gesture, last_gesture_time, matches, fired>>
    /\ UNCHANGED <<tickVars, trackVars, handsVars, resVars, camVars, normVars>>

(***************************************************************************)
(* CameraOperator._init_camera: the choice of the resolution (lines 37-66) *)
(* on a device that has been opened.  A resolution is <<width, height>>.   *)
(* The device reports a requested resolution back when it honours it and   *)
(* its default resolution when it does not.                                *)
(***************************************************************************)
\* config.CAMERA_RESOLUTIONS
CAMERA_RESOLUTIONS ==
    << <<1920, 1080>>, <<1600, 900>>, <<1366, 768>>, <<1280, 720>>,
       <<1024, 576>>, <<854, 480>>, <<640, 360>> >>
\* a shorter configured list
ShortResolutions == << <<1920, 1080>>, <<640, 360>> >>
ResolutionLists == {CAMERA_RESOLUTIONS, ShortResolutions}
\* the resolutions a device may report when a request is not honoured
DeviceDefaults == {<<640, 480>>, <<1920, 1200>>, <<1280, 720>>}
Listed(list) == {list[i] : i \in 1..Len(list)}

\* cap.set(CAP_PROP_FRAME_WIDTH, width); cap.set(CAP_PROP_FRAME_HEIGHT,
\* height) followed by cap.get of both: what the device reports
Reported(requested) ==
    IF requested \in honoured THEN requested ELSE device_default

\* a variant that compares the width alone
AcceptedOnWidth(actual, requested) == actual[1] = requested[1]
\* if actual_width == width and actual_height == height
Accepted(actual, requested) ==
    actual[1] = requested[1] /\ actual[2] = requested[2]

\* the device as opened: it reports its default resolution; a default that
\* is in the configured list is reported back when requested
ResInit ==
    /\ resolutions \in ResolutionLists
    /\ honoured \in SUBSET Listed(resolutions)
    /\ device_default \in DeviceDefaults
    /\ device_default \in Listed(resolutions) => device_default \in honoured
    /\ device_res = device_default
    /\ res_i = 1
    /\ success = FALSE
    /\ frame_width = 0
    /\ frame_height = 0
    /\ requests = <<>>
    /\ res_pc = "negotiate"

\* one round of "for width, height in config.CAMERA_RESOLUTIONS": the
\* resolution is requested and read back; a match ends the loop
TryResolution ==
    /\ res_pc = "negotiate"
    /\ res_i <= Len(resolutions)
    /\ LET requested == resolutions[res_i]
           actual == Reported(requested)
       IN /\ device_res' = actual
          /\ requests' = Append(requests, requested)
          /\ IF Accepted(actual, requested)
             THEN /\ success' = TRUE
                  /\ res_pc' = "store"
                  /\ UNCHANGED res_i
             ELSE /\ res_i' = res_i + 1
                  /\ UNCHANGED <<success, res_pc>>
    /\ UNCHANGED <<resolutions, honoured, device_default, frame_width,
                   frame_height>>
    /\ UNCHANGED <<tickVars, trackVars, handsVars, camVars, dbVars, gateVars, normVars, storeVars>>

\* the list is exhausted: "if not success", the default is logged
KeepDefault ==
    /\ res_pc = "negotiate"
    /\ res_i > Len(resolutions)
    /\ res_pc' = "store"
    /\ UNCHANGED <<resolutions, honoured, device_default, device_res, res_i,
                   success, frame_width, frame_height, requests>>
    /\ UNCHANGED <<tickVars, trackVars, handsVars, camVars, dbVars, gateVars, normVars, storeVars>>

\* self.frame_width, self.frame_height = what the device reports; the call
\* goes on to start the frame grabbing thread
StoreResolution ==
    /\ res_pc = "store"
    /\ frame_width' = device_res[1]
    /\ frame_height' = device_res[2]
    /\ res_pc' = "start"
    /\ UNCHANGED <<resolutions, honoured, device_default, device_res, res_i,
                   success, requests>>
    /\ UNCHANGED <<tickVars, trackVars, handsVars, camVars, dbVars, gateVars, normVars, storeVars>>

(***************************************************************************)
(* SignToSpeechApp: the camera toggle and the self-rescheduling            *)
(* _process_frame (src/main.py 66-88, 161-169).  root.after(30, ...) puts  *)
(* one callback into the event loop; callbacks with the same delay run in  *)
(* the order they were scheduled.                                          *)
(***************************************************************************)
MaxToggles == 6
MaxTicks == 6

\* _process_frame run as part of chain c: it returns at once when the
\* camera is not running; otherwise it handles a frame and schedules itself
\* again, at the end of the try block or in the except block
ProcessFrameRun(running_now, queue, c) ==
    IF ~running_now THEN queue ELSE Append(queue, c)

TickInit ==
    /\ is_camera_running = FALSE
    /\ after_queue = <<>>
    /\ toggles = 0
    /\ ticks = 0

\* _on_toggle_camera: _stop_camera when running, else _start_camera, which
\* sets the flag and calls _process_frame
OnToggleCamera ==
    /\ toggles < MaxToggles
    /\ toggles' = toggles + 1
    /\ IF is_camera_running
       THEN /\ is_camera_running' = FALSE
            /\ UNCHANGED after_queue
       ELSE /\ is_camera_running' = TRUE
            /\ after_queue' = ProcessFrameRun(TRUE, after_queue, toggles')
    /\ UNCHANGED ticks
    /\ UNCHANGED <<trackVars, handsVars, resVars, camVars, dbVars, gateVars, normVars, storeVars>>

\* the event loop runs the oldest pending _process_frame callback
TimerFires ==
    /\ after_queue # <<>>
    /\ ticks < MaxTicks
    /\ ticks' = ticks + 1
    /\ after_queue' = ProcessFrameRun(is_camera_running, Tail(after_queue),
                                      Head(after_queue))
    /\ UNCHANGED <<is_camera_running, toggles>>
    /\ UNCHANGED <<trackVars, handsVars, resVars, camVars, dbVars, gateVars, normVars, storeVars>>

(***************************************************************************)
(* HandTracker._recognize_gesture (src/core/hand_tracker.py 132-181): the  *)
(* raw tag of one hand from the mean pairwise distance of its landmarks,   *)
(* the window of the last raw tags, and the most frequent tag in it.       *)
(* Distances are those of hands whose points have whole-number distances,  *)
(* so that every ratio is an exact rational <<numerator, denominator>>.    *)
(***************************************************************************)
MaxTrackCalls == 6

history_length == 5

\* config.GESTURE_TYPES, in the order of the dictionary
GESTURE_TYPES ==
    << [type |-> "palm",     min |-> <<1, 10>>, max |-> <<1, 2>>],
       [type |-> "fist",     min |-> <<1, 50>>, max |-> <<1, 5>>],
       [type |-> "point_up", min |-> <<1, 20>>, max |-> <<2, 5>>] >>

\* ratios are kept in lowest terms
RECURSIVE Gcd(_, _)
Gcd(m, n) == IF n = 0 THEN m ELSE Gcd(n, m % n)
Lowest(r) ==
    LET g == Gcd(IF r[1] < 0 THEN -r[1] ELSE r[1], r[2])
    IN IF g = 0 THEN r ELSE <<r[1] \div g, r[2] \div g>>

RatLT(a, b) == a[1] * b[2] < b[1] * a[2]
RatLE(a, b) == a[1] * b[2] <= b[1] * a[2]
RatAbsDiff(a, b) ==
    LET n == a[1] * b[2] - b[1] * a[2]
    IN Lowest(<<IF n < 0 THEN -n ELSE n, a[2] * b[2]>>)

\* float('inf'): below no ratio, above every ratio
Infinity == <<1, 0>>

\* hands on a line: the wrist at 0, joint 12 at s, and of the other joints
\* in order the first a - 1 at 0, the next b - 1 at s and the rest at t
LinePt(s, t, a, b, i) ==
    LET r == IF i < 12 THEN i ELSE i - 1
    IN IF i = 0 THEN <<0, 0, 0>>
       ELSE IF i = 12 THEN <<s, 0, 0>>
       ELSE IF r <= a - 1 THEN <<0, 0, 0>>
       ELSE IF r <= a + b - 2 THEN <<s, 0, 0>>
       ELSE <<t, 0, 0>>
LineHand(s, t, a, b) == MkPose(LAMBDA i : LinePt(s, t, a, b, i))

\* mean distance 1/2 of the span: the upper end of the range of "palm"
PALM_MAX == LineHand(4, 1, 6, 10)
\* mean distance 1/5 of the span: the upper end of the range of "fist"
FIST_MAX == LineHand(4, 1, 3, 2)
\* mean distance 21/80 of the span: as far from the middle of "palm" as from
\* the middle of "point_up"
BETWEEN == LineHand(32, 1, 6, 3)

PointOf(l, i) == <<l[3 * i + 1], l[3 * i + 2], l[3 * i + 3]>>
Norm(p, q) == ISqrt(SumSq(<<p[1] - q[1], p[2] - q[2], p[3] - q[3]>>))

RECURSIVE RowSum(_, _, _)
RowSum(l, i, j) ==
    IF j > (Len(l) \div 3) - 1 THEN 0
    ELSE Norm(PointOf(l, i), PointOf(l, j)) + RowSum(l, i, j + 1)

RECURSIVE PairSum(_, _)
PairSum(l, i) ==
    IF i > (Len(l) \div 3) - 1 THEN 0
    ELSE RowSum(l, i, i + 1) + PairSum(l, i + 1)

\* the mean of the distances of all pairs of points
_get_average_landmark_distance(l) ==
    LET n == Len(l) \div 3
    IN IF n < 2 THEN <<0, 1>> ELSE <<PairSum(l, 0), (n * (n - 1)) \div 2>>

hand_span(l) == Norm(PointOf(l, 0), PointOf(l, 12))

normalized_dist(l) ==
    LET avg_dist == _get_average_landmark_distance(l)
    IN IF hand_span(l) > 0
       THEN Lowest(<<avg_dist[1], avg_dist[2] * hand_span(l)>>)
       ELSE <<0, 1>>

InRange(d, params) == RatLE(params.min, d) /\ RatLE(d, params.max)
mid_range(params) ==
    Lowest(<<params.min[1] * params.max[2] + params.max[1] * params.min[2],
             2 * params.min[2] * params.max[2]>>)

CloserOrEqual(diff, min_diff) == RatLE(diff, min_diff)
Closer(diff, min_diff) == RatLT(diff, min_diff)

\* the loop over GESTURE_TYPES from entry i on
RECURSIVE BestType(_, _, _, _)
BestType(d, i, best_match, min_diff) ==
    IF i > Len(GESTURE_TYPES) THEN best_match
    ELSE LET params == GESTURE_TYPES[i]
             diff == RatAbsDiff(d, mid_range(params))
         IN IF InRange(d, params) /\ Closer(diff, min_diff)
            THEN BestType(d, i + 1, params.type, diff)
            ELSE BestType(d, i + 1, best_match, min_diff)

TrackHands == {FIST, PALM, POINT_UP, FLAT, BETWEEN, PALM_MAX, FIST_MAX, SHORT}
Classifiable(l) == Len(l) >= 3 * NumLandmarks

DistTable == [l \in {h \in TrackHands : Classifiable(h)} |-> normalized_dist(l)]
RawTable == [l \in DOMAIN DistTable |-> BestType(DistTable[l], 1, "unknown", Infinity)]
RawTag(l) == RawTable[l]

EvictNewest(h) == SubSeq(h, 1, Len(h) - 1)
Evict(h) == Tail(h)

\* the window after one more raw tag
Remember(h, tag) ==
    LET h1 == Append(h, tag)
    IN IF Len(h1) > history_length THEN Evict(h1) ELSE h1

\* Counter(history): the tags in the order of their first occurrence
RECURSIVE Keys(_)
Keys(h) ==
    IF h = <<>> THEN <<>>
    ELSE LET front == Keys(SubSeq(h, 1, Len(h) - 1))
             last == h[Len(h)]
         IN IF \E k \in 1..Len(front) : front[k] = last THEN front
            ELSE Append(front, last)
CountOf(h, tag) == Cardinality({k \in 1..Len(h) : h[k] = tag})

ExceedsOrEquals(c, best) == c >= best
Exceeds(c, best) == c > best

\* most_common(1): the first of the keys with the highest count
RECURSIVE MostCommonFrom(_, _, _, _)
MostCommonFrom(h, keys, i, best) ==
    IF i > Len(keys) THEN best
    ELSE IF Exceeds(CountOf(h, keys[i]), CountOf(h, best))
         THEN MostCommonFrom(h, keys, i + 1, keys[i])
         ELSE MostCommonFrom(h, keys, i + 1, best)
MostCommon(h) == MostCommonFrom(h, Keys(h), 2, Keys(h)[1])

\* _recognize_gesture on a window: the window after the call, the raw tag
\* ("none" when the call returns before it classifies) and the result
RecognizeOn(h, l) ==
    IF ~Classifiable(l)
    THEN [history |-> h, raw |-> "none", tag |-> "unknown"]
    ELSE LET h1 == Remember(h, RawTag(l))
         IN [history |-> h1, raw |-> RawTag(l), tag |-> MostCommon(h1)]

TrackInit ==
    /\ gesture_history = <<>>
    /\ track_input = <<>>
    /\ returned = "none"
    /\ raw_log = <<>>

_recognize_gesture ==
    /\ Len(raw_log) < MaxTrackCalls
    /\ \E landmarks \in TrackHands :
          LET r == RecognizeOn(gesture_history, landmarks)
          IN /\ gesture_history' = r.history
             /\ returned' = r.tag
             /\ track_input' = landmarks
             /\ raw_log' = Append(raw_log, r.raw)
    /\ UNCHANGED <<tickVars, handsVars, resVars, camVars, dbVars, gateVars, normVars, storeVars>>

(***************************************************************************)
(* SignToSpeechApp._process_frame on frames that show two hands            *)
(* (src/main.py 102-133): every hand of a frame goes through the one       *)
(* tracker and the one gate of the application.  Two executions run side   *)
(* by side on frames that agree on the first hand.                         *)
(***************************************************************************)
MaxHandFrames == 3

\* config.GESTURE_RECOGNITION_THRESHOLD
GESTURE_RECOGNITION_THRESHOLD == <<7, 10>>

\* the hands shown and the library matched against
ShownHands == {FIST, PALM, POINT_UP}
HandsLibrary ==
    << [id |-> "fist", landmarks |-> FIST], [id |-> "palm", landmarks |-> PALM] >>

\* an application that has processed nothing; tag and fired are what the
\* last frame produced for its first hand
NoExec ==
    [history |-> <<>>, current_gesture |-> None, last_gesture_time |-> 0,
     tag |-> "none", fired |-> FALSE]

\* the body of the loop over results.multi_hand_landmarks for one hand
ProcessHand(e, landmarks, current_time) ==
    LET r == RecognizeOn(e.history, landmarks)
        matched_gesture ==
            find_similar_gesture(landmarks, HandsLibrary,
                                 GESTURE_RECOGNITION_THRESHOLD)
        gate_opens == /\ matched_gesture.found
                 /\ \/ e.current_gesture # matched_gesture.id
                    \/ current_time - e.last_gesture_time > Cooldown
    IN [history |-> r.history,
        current_gesture |-> IF gate_opens THEN matched_gesture.id
                            ELSE e.current_gesture,
        last_gesture_time |-> IF gate_opens THEN current_time
                              ELSE e.last_gesture_time,
        tag |-> r.tag,
        fired |-> gate_opens]

\* one frame: the first hand, then the second
ProcessHands(e, first, second, current_time) ==
    LET e1 == ProcessHand(e, first, current_time)
        e2 == ProcessHand(e1, second, current_time)
    IN [e2 EXCEPT !.tag = e1.tag, !.fired = e1.fired]

HandsInit ==
    /\ exec_a = NoExec
    /\ exec_b = NoExec
    /\ hand_frames = 0

\* _process_frame in both executions: the same first hand, any second hands
ProcessFrame ==
    /\ hand_frames < MaxHandFrames
    /\ hand_frames' = hand_frames + 1
    /\ \E first \in ShownHands, second_a \in ShownHands, second_b \in ShownHands :
          /\ exec_a' = ProcessHands(exec_a, first, second_a, StartTime + hand_frames)
          /\ exec_b' = ProcessHands(exec_b, first, second_b, StartTime + hand_frames)
    /\ UNCHANGED <<tickVars, trackVars, resVars, camVars, dbVars, gateVars, normVars, storeVars>>

(***************************************************************************)
(* The parts of the state a specification does not involve stay as they    *)
(* are constructed.                                                        *)
(***************************************************************************)
\* no library, no search
DbIdle ==
    /\ gestures = <<>>
    /\ query = <<>>
    /\ threshold = <<0, 1>>
    /\ result = None

\* no landmark set has been normalised
NotNormalized == [done |-> FALSE, base |-> Raised, moved |-> Raised,
                  scaled |-> Raised]
NormIdle ==
    /\ offset = <<0, 0, 0>>
    /\ factor = 1
    /\ normalized = NotNormalized

\* no database has been constructed
StoreIdle ==
    /\ file = AbsentFile
    /\ db_pc = "idle"
    /\ file0 = AbsentFile
    /\ last_save = NoSave
    /\ last_call = NoCall
    /\ calls = 0

\* no resolution has been negotiated
ResIdle ==
    /\ resolutions = <<>>
    /\ honoured = {}
    /\ device_default = <<0, 0>>
    /\ device_res = <<0, 0>>
    /\ res_i = 0
    /\ success = FALSE
    /\ frame_width = 0
    /\ frame_height = 0
    /\ requests = <<>>
    /\ res_pc = "idle"

\* the camera has never been toggled
TickIdle == TickInit

\* the tracker has classified nothing
TrackIdle == TrackInit

\* no frame with two hands has been processed
HandsIdle == HandsInit

InitMatch == CamInit /\ MatchInit /\ GateInit /\ NormIdle /\ StoreIdle /\ ResIdle
    /\ TrackIdle /\ HandsIdle /\ TickIdle
NextMatch == FindSimilar \/ NextQuery
SpecMatch == InitMatch /\ [][NextMatch]_vars

(***************************************************************************)
(* Claims about find_similar_gesture, checked under SpecMatch.             *)
(***************************************************************************)
\* a search has run on the current library, query and threshold
HasRun == result # NotRun
\* the query is a hand of 21 points whose wrist-to-joint-9 distance is not 0
NonDegenerate(l) ==
    /\ Len(l) = 3 * NumLandmarks
    /\ <<l[28] - l[1], l[29] - l[2], l[30] - l[3]>> # <<0, 0, 0>>
\* entry i of the library can be compared with the query
Comparable(i) ==
    /\ Len(query) > 0
    /\ NormalizeQuery(query).ok
    /\ Len(gestures[i].landmarks) > 0
    /\ Compare(NormalizeQuery(query), gestures[i].landmarks).ok
\* the similarity of entry i to the query
SimOf(i) == Compare(NormalizeQuery(query), gestures[i].landmarks).similarity
\* entry i has the highest similarity of the library
IsBest(i) ==
    /\ Comparable(i)
    /\ \A j \in 1..Len(gestures) : Comparable(j) => RatGE(SimOf(i), SimOf(j))
\* the entries whose stored landmarks equal the query exactly
ExactEntries == {i \in 1..Len(gestures) : gestures[i].landmarks = query}

\* C7 as stated: if the library holds a pose whose stored landmarks equal the
\* (non-degenerate) query and the threshold is at most 1, the search returns
\* a match of similarity 1.0 that carries the identifier of such a pose.
C7_ExactMatchReturnsThatPose ==
    (HasRun /\ RatGE(<<1, 1>>, threshold) /\ NonDegenerate(query)
        /\ ExactEntries # {})
    => /\ result.found
       /\ RatEQ(result.score, <<1, 1>>)
       /\ \E i \in ExactEntries : result.id = gestures[i].id

\* C7 as amended: under the same conditions the search returns a match of
\* similarity 1.0, and it is the first entry in library order whose
\* similarity to the query is 1.0; in a one-pose library it is that pose.
C7_ExactMatchReturnsFirstPerfect ==
    (HasRun /\ RatGE(<<1, 1>>, threshold) /\ NonDegenerate(query)
        /\ ExactEntries # {})
    => /\ result.found
       /\ RatEQ(result.score, <<1, 1>>)
       /\ \E i \in 1..Len(gestures) :
            /\ result.id = gestures[i].id
            /\ Comparable(i) /\ RatEQ(SimOf(i), <<1, 1>>)
            /\ \A j \in 1..(i - 1) :
                   ~(Comparable(j) /\ RatEQ(SimOf(j), <<1, 1>>))
       /\ Len(gestures) = 1 => result.id = gestures[1].id

\* C7 witness: a two-pose library whose second pose equals a translated and
\* scaled query exactly, found with similarity 1.0 at threshold 1.
C7_Witness ==
    /\ HasRun /\ result.found
    /\ query = FIST_FAR /\ threshold = <<1, 1>>
    /\ Len(gestures) = 2
    /\ gestures[2].landmarks = query
    /\ result.id = gestures[2].id
    /\ RatEQ(result.score, <<1, 1>>)

\* C8: the search returns no match whenever the query landmarks are empty or
\* the library is empty, for every query and threshold.
C8_EmptyInputsNoMatch ==
    (HasRun /\ (Len(query) = 0 \/ Len(gestures) = 0)) => ~result.found

\* C8 witness: a search with an empty query over a library that holds a
\* well-formed pose has returned no match.
C8_Witness ==
    /\ HasRun /\ ~result.found
    /\ Len(query) = 0
    /\ \E i \in 1..Len(gestures) : gestures[i].landmarks = FLAT

C10_TieBreakFirst ==
    (HasRun /\ result.found) =>
        \E i \in 1..Len(gestures) :
            /\ IsBest(i)
            /\ result.id = gestures[i].id
            /\ \A j \in 1..(i - 1) : ~IsBest(j)

\* C10 witness: two entries tie for the highest similarity and the first of
\* them has been returned.
C10_Witness ==
    /\ HasRun /\ result.found
    /\ Len(gestures) >= 2
    /\ IsBest(1) /\ IsBest(2)
    /\ gestures[1].landmarks # gestures[2].landmarks
    /\ result.id = gestures[1].id

(***************************************************************************)
(* _normalize_landmarks on moved and scaled landmark sets, SpecNorm.       *)
(***************************************************************************)
\* the largest coordinate of an offset
MaxOffset == 1
\* the largest scalar
MaxFactor == 3

\* the 21-point landmark sets drawn
NormLandmarks == {FIST, FIST_FAR, PALM, POINT_UP, POINT_WIDE, FLAT}
Offsets == {<<x, y, z>> : x \in -MaxOffset..MaxOffset,
                          y \in -MaxOffset..MaxOffset,
                          z \in -MaxOffset..MaxOffset}
Factors == 1..MaxFactor

\* L + t: the offset added to every point
Translate(landmarks, t) ==
    [j \in 1..Len(landmarks) |-> landmarks[j] + t[((j - 1) % 3) + 1]]
\* L * s: every coordinate multiplied by the scalar
ScaleBy(landmarks, s) == [j \in 1..Len(landmarks) |-> landmarks[j] * s]

\* a landmark set as the tracker delivers it, an offset and a scalar
NormInit ==
    /\ gestures = <<>>
    /\ query \in NormLandmarks
    /\ threshold = <<0, 1>>
    /\ result = None
    /\ offset \in Offsets
    /\ factor \in Factors
    /\ normalized = NotNormalized

\* _normalize_landmarks(L), _normalize_landmarks(L + t) and
\* _normalize_landmarks(L * s)
Normalize ==
    /\ ~normalized.done
    /\ normalized' = [done |-> TRUE,
                      base |-> _normalize_landmarks(query),
                      moved |-> _normalize_landmarks(Translate(query, offset)),
                      scaled |-> _normalize_landmarks(ScaleBy(query, factor))]
    /\ UNCHANGED <<offset, factor>>
    /\ UNCHANGED <<tickVars, trackVars, handsVars, resVars, camVars, dbVars, gateVars, storeVars>>

\* the next landmark set, offset and scalar
NextLandmarks ==
    /\ normalized.done
    /\ \E l \in NormLandmarks, t \in Offsets, s \in Factors :
        /\ query' = l
        /\ offset' = t
        /\ factor' = s
    /\ normalized' = NotNormalized
    /\ UNCHANGED <<gestures, threshold, result>>
    /\ UNCHANGED <<tickVars, trackVars, handsVars, resVars, camVars, gateVars, storeVars>>

InitNorm == CamInit /\ NormInit /\ GateInit /\ StoreIdle /\ ResIdle
    /\ TrackIdle /\ HandsIdle /\ TickIdle
NextNorm == Normalize \/ NextLandmarks
SpecNorm == InitNorm /\ [][NextNorm]_vars

\* two normalised lists hold the same values: num / den agree coordinate by
\* coordinate
SameNormalized(a, b) ==
    /\ a.ok /\ b.ok
    /\ Len(a.num) = Len(b.num)
    /\ \A j \in 1..Len(a.num) : a.num[j] * b.den = b.num[j] * a.den

\* C14: translation invariance: for every 21-point landmark set L and every
\* offset t added to every point, _normalize_landmarks(L + t) equals
\* _normalize_landmarks(L).
C14_TranslationInvariant ==
    normalized.done => SameNormalized(normalized.moved, normalized.base)

\* C14 witness: a set moved by an offset that is non-zero on every axis has
\* been normalised.
C14_Witness ==
    /\ normalized.done
    /\ \A c \in 1..3 : offset[c] # 0
    /\ Translate(query, offset) # query
    /\ normalized.base.den > 1

\* C15: scale invariance: for every 21-point landmark set L whose
\* wrist-to-joint-9 distance is non-zero and every positive scalar s,
\* _normalize_landmarks(L * s) equals _normalize_landmarks(L).
C15_ScaleInvariant ==
    (normalized.done /\ NonDegenerate(query))
        => SameNormalized(normalized.scaled, normalized.base)

\* C15 witness: a non-degenerate set scaled by a factor above 1 has been
\* normalised, and the scaled set's reference distance is the factor times
\* the original one.
C15_Witness ==
    /\ normalized.done
    /\ NonDegenerate(query)
    /\ factor > 1
    /\ normalized.scaled.den = factor * normalized.base.den

(***************************************************************************)
(* Claims about the cooldown gate, checked under SpecGate.                 *)
(***************************************************************************)
InitGate == CamInit /\ DbIdle /\ GateInit /\ NormIdle /\ StoreIdle /\ ResIdle
    /\ TrackIdle /\ HandsIdle /\ TickIdle
NextGate == HandleGestureRecognition \/ Tick
SpecGate == InitGate /\ [][NextGate]_vars

\* every match so far carries the same identifier
SameGesture == \A i \in 1..Len(matches) : matches[i].id = matches[1].id
\* every match so far arrived within the cooldown window of the first
WithinWindow ==
    \A i \in 1..Len(matches) : matches[i].at - matches[1].at <= Cooldown

\* C11: for a sequence of matches with one identifier, all arriving within
\* the 5-second cooldown window of the first, the side effect has fired
\* exactly once (for the first match).
C11_RepeatedFiresOnce ==
    (Len(matches) >= 1 /\ SameGesture /\ WithinWindow)
        => (Len(fired) = 1 /\ fired[1].index = 1)

\* C11 witness: three matches of one gesture, the last one at exactly five
\* seconds after the first, one firing.
C11_Witness ==
    /\ Len(matches) = MaxMatches
    /\ SameGesture /\ WithinWindow
    /\ matches[Len(matches)].at - matches[1].at = Cooldown
    /\ Len(fired) = 1

\* the sequence [A, B, A] with B after the cooldown of the first A expired
IsABA ==
    /\ Len(matches) = 3
    /\ matches[1].id # matches[2].id
    /\ matches[3].id = matches[1].id
    /\ matches[2].at - matches[1].at > Cooldown

\* C12 (as stated): for [A, B, A] on a fresh gate, B arriving after the
\* cooldown expired, the side effect has fired two times.
C12_ABAFiresTwice == IsABA => Len(fired) = 2

\* C12 (amended): for [A, B, A] on a fresh gate, B arriving after the
\* cooldown expired, the side effect has fired three times: for the first
\* A, at the A -> B transition and at the B -> A transition.
C12_ABAFiresThrice ==
    IsABA => (Len(fired) = 3 /\ \A j \in 1..3 : fired[j].index = j)

\* C12 witness: [A, B, A] with B after the expiry and the second A in the
\* same second as B, all three fired.
C12_Witness ==
    /\ IsABA
    /\ matches[3].at = matches[2].at
    /\ Len(fired) = 3

\* C13 (as stated): a gesture held over every match so far has fired
\* exactly once, however long it has been held.
C13_HeldFiresOnce == (Len(matches) >= 1 /\ SameGesture) => Len(fired) = 1

\* C13 (amended): while a gesture is held, the side effect fires for the
\* first match, and again only for a match that arrives more than 5
\* seconds after the previous firing: no two firings of a hold are within
\* 5 seconds of each other, and every match more than 5 seconds after the
\* previous firing fires.
C13_HeldFiresOncePerWindow ==
    (Len(matches) >= 1 /\ SameGesture) =>
        /\ Len(fired) >= 1 /\ fired[1].index = 1
        /\ \A j \in 1..(Len(fired) - 1) :
              fired[j + 1].at - fired[j].at > Cooldown
        /\ \A i \in 1..Len(matches) :
              matches[i].at - fired[Len(fired)].at <= Cooldown

\* C13 witness: a gesture held for more than the cooldown, fired twice.
C13_Witness ==
    /\ Len(matches) = MaxMatches
    /\ SameGesture
    /\ Len(fired) = 2
    /\ fired[2].at - fired[1].at = Cooldown + 1

(***************************************************************************)
(* Start-up of the database on a store file, SpecLoad.                     *)
(***************************************************************************)
\* the entries a store file may hold: a complete user entry, a complete
\* user entry named like a default gesture, an entry without message, an
\* entry with an empty landmarks list, an entry that holds nothing but
\* "is_default": true, and a value that is no JSON object
Shapes == {"valid", "valid_fist", "no_message", "no_landmarks", "flagged",
           "scalar"}
ShapeEntry(shape, i) ==
    [id |-> Key("g", i),
     dict |-> shape # "scalar",
     name |-> IF shape = "valid_fist" THEN "* FIST" ELSE "Wave",
     keys |-> CASE shape = "no_message" -> RequiredKeys \ {"message"}
                [] shape = "flagged" -> {"is_default"}
                [] shape = "scalar" -> {}
                [] OTHER -> RequiredKeys,
     landmarks |-> IF shape \in {"valid", "valid_fist", "no_message"}
                   THEN FIST ELSE EMPTY,
     den |-> 1,
     is_default |-> shape = "flagged"]
\* the libraries a store file may hold: what the program wrote at first
\* start, or up to MaxStore entries of the shapes above
StoreLibraries ==
    {DefaultGestures} \cup
    UNION {{[i \in 1..n |-> ShapeEntry(sh[i], i)] : sh \in [1..n -> Shapes]} :
              n \in 0..MaxStore}
StoreFiles ==
    {AbsentFile, CorruptFile, NonDictFile} \cup
    {[kind |-> "doc", wrapped |-> w, entries |-> lib] :
        w \in BOOLEAN, lib \in StoreLibraries}

\* GestureDatabase.__init__ up to the call of _ensure_db_exists
LoadInit ==
    /\ gestures = <<>>
    /\ query = <<>>
    /\ threshold = <<0, 1>>
    /\ result = None
    /\ file \in StoreFiles
    /\ file0 = file
    /\ db_pc = "ensure"
    /\ last_save = NoSave
    /\ last_call = NoCall
    /\ calls = 0

InitLoad == CamInit /\ LoadInit /\ GateInit /\ NormIdle /\ ResIdle
    /\ TrackIdle /\ HandsIdle /\ TickIdle
NextLoad == EnsureDbExists \/ LoadGestures \/ AppEnsureFile
SpecLoad == InitLoad /\ [][NextLoad]_vars

\* the constructor of the database has returned, or has raised
Constructed == db_pc \in {"app", "ready", "app_failed"}
\* an entry with name, landmarks, message and created_at and a non-empty
\* landmarks list
ValidEntry(e) == e.dict /\ Complete(e) /\ Len(e.landmarks) > 0

\* C16: after a start-up on an existing parseable store (wrapped or legacy
\* flat shape) in which no save failed, loading has not failed and every
\* entry of the in-memory library has the four required fields and a
\* non-empty landmarks list.
C16_LoadedEntriesValid ==
    (file0.kind = "doc" /\ last_save.outcome \in {"none", "ok"}
        /\ db_pc \in {"crashed", "app", "ready", "app_failed"})
    => /\ db_pc # "crashed"
       /\ \A i \in 1..Len(gestures) : ValidEntry(gestures[i])

\* C17: after a start-up on an absent or unparseable store, the in-memory
\* library is exactly the three default gestures (fist, point-up, palm),
\* and the store holds that set whenever the last write did not fail.
C17_DefaultsOnCorruption ==
    (file0.kind \in {"absent", "corrupt", "nondict"} /\ Constructed)
    => /\ gestures = DefaultGestures
       /\ last_save.outcome # "none"
       /\ last_save.outcome = "ok" => file = Doc(DefaultGestures)

\* C17 witness: start-up on an unparseable store has finished, the library
\* is the default set, and the store has been overwritten with it.
C17_Witness ==
    /\ file0 = CorruptFile
    /\ db_pc = "ready"
    /\ gestures = DefaultGestures
    /\ file = Doc(DefaultGestures)

(***************************************************************************)
(* Calls on a constructed database, SpecStore.                             *)
(***************************************************************************)
\* the identifiers and landmark lists add_gesture and delete_gesture are
\* called with
CallIds == {Key("g", 1), Key("fist_default", 0)}
CallLandmarks == {PALM, EMPTY}

\* the database after a start-up on an absent store, or on a store that
\* holds the defaults and one user entry
StoreInit ==
    /\ gestures \in {DefaultGestures,
                     Append(DefaultGestures, ShapeEntry("valid", 1))}
    /\ query = <<>>
    /\ threshold = <<0, 1>>
    /\ result = None
    /\ file = Doc(gestures)
    /\ file0 = file
    /\ db_pc = "ready"
    /\ last_save = NoSave
    /\ last_call = NoCall
    /\ calls = 0

InitStore == CamInit /\ StoreInit /\ GateInit /\ NormIdle /\ ResIdle
    /\ TrackIdle /\ HandsIdle /\ TickIdle
NextStore ==
    \/ \E id \in CallIds, landmarks \in CallLandmarks :
          AddGesture(id, "Wave", landmarks)
    \/ \E id \in CallIds : DeleteGesture(id)
    \/ OnAddGesture
SpecStore == InitStore /\ [][NextStore]_vars

\* C18: if writing the temporary file in _save_gestures fails, the target
\* file is as it was before the call and _save_gestures returns False.
C18_FailedTempWriteKeepsFile ==
    last_save.outcome = "temp"
        => (last_save.after = last_save.before /\ ~last_save.ret)

\* C18 witness: a save on an existing store failed while writing the
\* temporary file, and the store still holds what it held.
C18_Witness ==
    /\ last_save.outcome = "temp"
    /\ last_save.before.kind = "doc"
    /\ Len(last_save.before.entries) > 0
    /\ file = last_save.before
    /\ gestures # file.entries

\* the save of the last call failed
SaveFailed == last_call.outcome \in {"temp", "remove", "rename"}
\* the entry stored under id, or <<>>
EntriesOf(lib, id) == SelectSeq(lib, LAMBDA e : e.id = id)

\* C19: when the save performed by add_gesture or delete_gesture fails, the
\* call returns False and the in-memory library reflects the requested add
\* or delete.
C19_WriteFailureReported ==
    (last_call.op \in {"add", "delete"} /\ SaveFailed)
    => /\ last_call.ret = "False"
       /\ last_call.op = "add" =>
             /\ Len(EntriesOf(gestures, last_call.id)) = 1
             /\ EntriesOf(gestures, last_call.id)[1].landmarks
                   = last_call.input
       /\ last_call.op = "delete" =>
             /\ last_call.id \in Ids(last_call.before)
             /\ last_call.id \notin Ids(gestures)
       /\ \A i \in 1..Len(last_call.before) :
             last_call.before[i].id # last_call.id
                => last_call.before[i] \in {gestures[k] : k \in 1..Len(gestures)}

\* C19 witness: an add of a new pose whose save failed at the rename: the
\* pose is in memory, the store is gone, False was returned.
C19_Witness ==
    /\ last_call.op = "add"
    /\ last_call.outcome = "rename"
    /\ last_call.id \notin Ids(last_call.before)
    /\ last_call.id \in Ids(gestures)
    /\ ~Exists(file)
    /\ last_call.ret = "False"

\* C20: an enrollment that captured at least one usable sample has added
\* exactly one new entry under an identifier that was not present, holding
\* the coordinate-wise average of the samples, has returned normally, and
\* the entry is in the store.
C20_EnrollmentStoresPose ==
    (last_call.op = "enroll" /\ Len(last_call.input) >= 1)
    => /\ last_call.id \notin Ids(last_call.before)
       /\ Len(gestures) = Len(last_call.before) + 1
       /\ LET e == EntriesOf(gestures, last_call.id)[1]
          IN /\ e.den = Len(last_call.input)
             /\ \A j \in 1..(3 * NumLandmarks) :
                   e.landmarks[j] =
                      ColumnSum(last_call.input, j, Len(last_call.input))
       /\ last_call.ret = None
       /\ file.kind = "doc"
       /\ last_call.id \in Ids(file.entries)

\* C21: an enrollment that captured no usable landmark sample is rejected:
\* the handler returns without an exception and the step leaves the
\* in-memory library and the store file as they were.
C21_ZeroSamplesRejected ==
    [][(calls' = calls + 1 /\ last_call'.op = "enroll"
            /\ Len(last_call'.input) = 0)
       => (gestures' = gestures /\ file' = file
            /\ last_call'.ret = None)]_vars

\* C21 witness: an enrollment without samples has run on a library that
\* holds a user entry, and library and store are what they were.
C21_Witness ==
    /\ last_call.op = "enroll"
    /\ Len(last_call.input) = 0
    /\ last_call.ret = None
    /\ gestures = last_call.before
    /\ Len(gestures) > Len(DefaultGestures)
    /\ file = Doc(gestures)

\* the distance between point 0 (the wrist) and point 9 of a landmark set
WristToNine(landmarks) ==
    ISqrt(SumSq(<<landmarks[28] - landmarks[1], landmarks[29] - landmarks[2],
                  landmarks[30] - landmarks[3]>>))
\* out is landmarks with point 0 moved to the origin, over the divisor d
AnchoredAt(landmarks, out, d) ==
    /\ out.ok
    /\ Len(out.num) = Len(landmarks)
    /\ out.num[1] = 0 /\ out.num[2] = 0 /\ out.num[3] = 0
    /\ \A j \in 1..Len(landmarks) :
          out.num[j] = landmarks[j] - landmarks[((j - 1) % 3) + 1]
    /\ out.den = d
Anchored(landmarks, out) ==
    IF WristToNine(landmarks) > 0
    THEN AnchoredAt(landmarks, out, WristToNine(landmarks))
    ELSE AnchoredAt(landmarks, out, 1)

\* C28: point 0 of the output of _normalize_landmarks is (0,0,0); every
\* coordinate is the centred input coordinate divided by the distance
\* between wrist and point 9 when that distance is greater than zero, and
\* the centred coordinate itself when it is zero.
C28_NormalizationAnchors ==
    normalized.done =>
        /\ Anchored(query, normalized.base)
        /\ Anchored(Translate(query, offset), normalized.moved)
        /\ Anchored(ScaleBy(query, factor), normalized.scaled)

\* C28 witness: a hand whose point 9 lies on the wrist, away from the
\* origin, has been normalised: it is centred and left unscaled.
C28_Witness ==
    /\ normalized.done
    /\ query = FLAT
    /\ offset # <<0, 0, 0>>
    /\ factor > 1
    /\ WristToNine(Translate(query, offset)) = 0
    /\ normalized.moved.den = 1
    /\ normalized.moved.num[1] = 0
    /\ \E j \in 1..Len(query) : normalized.scaled.num[j] = factor

\* the landmark lists of 21 points among the queries and the stored lists
FullQueries == {q \in QueryLandmarks : Len(q) = 3 * NumLandmarks}
FullStored == {l \in StoredLandmarks : Len(l) = 3 * NumLandmarks}
\* the number of distances that come before d[i] in ascending order
Rank(d, i) ==
    Cardinality({j \in 1..Len(d) : d[j] < d[i] \/ (d[j] = d[i] /\ j < i)})
\* the sum of the 16 smallest of the distances d[1..n]
RECURSIVE Sum16Smallest(_, _)
Sum16Smallest(d, n) ==
    IF n = 0 THEN 0
    ELSE (IF Rank(d, n) < 16 THEN d[n] ELSE 0) + Sum16Smallest(d, n - 1)
\* for a query and a stored list: the per-joint distances between the two
\* normalised lists (numerators over den) and the sum of the 16 smallest
TrimmedTable ==
    [q \in FullQueries, l \in FullStored |->
        LET a == _normalize_landmarks(q)
            b == _normalize_landmarks(l)
            d == Distances(a, b)
        IN [distances |-> d, den |-> a.den * b.den,
            sum |-> Sum16Smallest(d, Len(d))]]
DistancesOf(i) == TrimmedTable[query, gestures[i].landmarks].distances
DenOf(i) == TrimmedTable[query, gestures[i].landmarks].den
SumOf(i) == TrimmedTable[query, gestures[i].landmarks].sum
\* 1 / (1 + m) for entry i, m the mean of its 16 smallest distances
TrimmedScore(i) == <<16 * DenOf(i), 16 * DenOf(i) + SumOf(i)>>
\* m is smaller for entry i than for entry j
MeanLess(i, j) == SumOf(i) * DenOf(j) < SumOf(j) * DenOf(i)

\* C29: for every library entry compared with the query, the score equals
\* 1 / (1 + m) with m the mean of the 16 smallest of the 21 per-joint
\* distances; it lies in (0, 1]; of two entries the one with the smaller m
\* has the strictly greater score; and the score of a returned match is
\* that of the entry returned.
C29_TrimmedMeanScore ==
    (HasRun /\ Len(query) = 3 * NumLandmarks) =>
      \A i \in 1..Len(gestures) :
        Comparable(i) =>
          /\ Len(DistancesOf(i)) = 21
          /\ RatEQ(SimOf(i), TrimmedScore(i))
          /\ SimOf(i)[1] > 0 /\ SimOf(i)[2] >= SimOf(i)[1]
          /\ \A j \in 1..Len(gestures) :
                (Comparable(j) /\ MeanLess(i, j)) => RatGT(SimOf(i), SimOf(j))
          /\ (result.found /\ result.id = gestures[i].id)
                => RatEQ(result.score, TrimmedScore(i))

\* C29 witness: a raised index finger against a stored fist and a stored
\* open hand: the four largest distances to the fist are trimmed away, its
\* score is 1 and is the greater of the two, and the fist is returned.
C29_Witness ==
    /\ HasRun /\ result.found
    /\ query = POINT_UP
    /\ Len(gestures) = 1 + 1
    /\ gestures[1].landmarks = PALM /\ gestures[2].landmarks = FIST
    /\ \E k \in 1..21 : DistancesOf(2)[k] > 0
    /\ RatEQ(SimOf(2), <<1, 1>>)
    /\ MeanLess(2, 1)
    /\ result.id = gestures[2].id

\* stored landmarks of 21 points
WellFormed(landmarks) == Len(landmarks) = 3 * NumLandmarks
\* the library without the entries whose landmarks are empty or malformed
WithoutMalformed(lib) == SelectSeq(lib, LAMBDA e : WellFormed(e.landmarks))

\* C30: for every library and every query of 21 points, the result of the
\* search is the result of the same search over the library without the
\* entries whose stored landmarks are empty or malformed, and a returned
\* match is never such an entry.
C30_MalformedEntriesSkipped ==
    (HasRun /\ WellFormed(query)) =>
        /\ result = find_similar_gesture(query, WithoutMalformed(gestures),
                                         threshold)
        /\ result.found =>
              \E i \in 1..Len(gestures) :
                  /\ gestures[i].id = result.id
                  /\ WellFormed(gestures[i].landmarks)

\* C30 witness: a library whose first entry holds a list of 10 points and
\* whose second entry is the fist: the fist is found.
C30_Witness ==
    /\ HasRun /\ result.found
    /\ query = FIST
    /\ Len(gestures) = 1 + 1
    /\ gestures[1].landmarks = TEN
    /\ gestures[2].landmarks = FIST
    /\ result.id = gestures[2].id

\* the library with its entries inserted in another order
Reorderings(lib) ==
    {[i \in 1..Len(lib) |-> lib[f[i]]] :
        f \in {g \in [1..Len(lib) -> 1..Len(lib)] :
                  \A a, b \in 1..Len(lib) : a # b => g[a] # g[b]}}
\* the entries of the highest similarity
BestEntries == {i \in 1..Len(gestures) : IsBest(i)}

\* C31 as stated: the identifier returned for a query and a threshold is
\* the same for every insertion order of the library's entries.
C31_OrderIndependent ==
    HasRun =>
        \A lib \in Reorderings(gestures) :
            find_similar_gesture(query, lib, threshold).id = result.id

\* C31 as amended: the identifier returned is the same for every insertion
\* order whenever no two entries share the highest similarity; when
\* several do, the first inserted of them is returned.
C31_OrderIndependentUnlessTied ==
    HasRun =>
        /\ Cardinality(BestEntries) <= 1 =>
              \A lib \in Reorderings(gestures) :
                  find_similar_gesture(query, lib, threshold).id = result.id
        /\ (Cardinality(BestEntries) > 1 /\ result.found) =>
              \E i \in BestEntries :
                  /\ result.id = gestures[i].id
                  /\ \A j \in BestEntries : i <= j

\* C31 witness: the open hand is found as the second of two entries, the
\* first one scoring lower and above the threshold too.
C31_Witness ==
    /\ HasRun /\ result.found
    /\ Len(gestures) = 1 + 1
    /\ BestEntries = {1 + 1}
    /\ Comparable(1)
    /\ RatGE(SimOf(1), threshold)
    /\ result.id = gestures[1 + 1].id

\* C32: a match with identifier i at time now fires the side effect if and
\* only if i differs from the last-confirmed identifier or now minus the
\* last-confirmed timestamp is greater than 5; when it fires, the
\* last-confirmed fields become (i, now); when it is suppressed they are
\* left unchanged.
C32_CooldownTransition ==
    [][Len(matches') = Len(matches) + 1 =>
         LET m == matches'[Len(matches')]
             fires == Len(fired') = Len(fired) + 1
         IN /\ fires <=> (m.id # current_gesture
                            \/ m.at - last_gesture_time > 5)
            /\ fires => /\ current_gesture' = m.id
                        /\ last_gesture_time' = m.at
                        /\ fired'[Len(fired')].id = m.id
                        /\ fired'[Len(fired')].at = m.at
            /\ ~fires => /\ current_gesture' = current_gesture
                         /\ last_gesture_time' = last_gesture_time
                         /\ fired' = fired]_vars

\* C32 witness: three matches of one gesture: the first fired, the second
\* was suppressed inside the window, the third fired after it.
C32_Witness ==
    /\ Len(matches) = 3
    /\ SameGesture
    /\ Len(fired) = 1 + 1
    /\ fired[1].index = 1
    /\ fired[1 + 1].index = 3
    /\ matches[3].at - matches[1].at > Cooldown
    /\ current_gesture = matches[3].id
    /\ last_gesture_time = matches[3].at

(***************************************************************************)
(* The hand tracker, SpecTrack.                                            *)
(***************************************************************************)
InitTrack == CamInit /\ DbIdle /\ GateInit /\ NormIdle /\ StoreIdle /\ ResIdle
    /\ TrackInit /\ HandsIdle /\ TickIdle
NextTrack == _recognize_gesture
SpecTrack == InitTrack /\ [][NextTrack]_vars

\* the last call classified a hand
Classified == raw_log # <<>> /\ raw_log[Len(raw_log)] # "none"
LastRaw == raw_log[Len(raw_log)]

\* the types whose range holds the distance d
Holding(d) == {i \in 1..Len(GESTURE_TYPES) : InRange(d, GESTURE_TYPES[i])}
OffMiddle(d, i) == RatAbsDiff(d, mid_range(GESTURE_TYPES[i]))

\* C33: the raw tag of a 21-point hand is the type whose range holds the
\* normalized mean pairwise distance and whose middle is closest to it, the
\* first such type in the order of the configuration when two are equally
\* close; it is "unknown" when no range holds the distance, and when the
\* span from the wrist to joint 12 is zero.
C33_BucketChoice ==
    Classified =>
        LET d == DistTable[track_input]
        IN /\ hand_span(track_input) = 0 => LastRaw = "unknown"
           /\ Holding(d) = {} => LastRaw = "unknown"
           /\ Holding(d) # {} =>
                \E i \in Holding(d) :
                    /\ LastRaw = GESTURE_TYPES[i].type
                    /\ \A j \in Holding(d) :
                          \/ RatLT(OffMiddle(d, i), OffMiddle(d, j))
                          \/ RatEQ(OffMiddle(d, i), OffMiddle(d, j)) /\ i <= j

\* C33: a hand as far from the middle of "palm" as from the middle of
\* "point_up" has been tagged "palm", the first of the two.
C33_Witness ==
    /\ Classified
    /\ track_input = BETWEEN
    /\ {GESTURE_TYPES[i].type : i \in Holding(DistTable[BETWEEN])} = {"palm", "point_up"}
    /\ RatEQ(OffMiddle(DistTable[BETWEEN], 1), OffMiddle(DistTable[BETWEEN], 3))
    /\ LastRaw = "palm"

\* the raw tags of the calls that classified a hand, in the order of arrival
RawTags == SelectSeq(raw_log, LAMBDA tag : tag # "none")
LastOf(seq, n) == SubSeq(seq, Len(seq) - n + 1, Len(seq))

\* C34: after any sequence of calls the window holds at most 5 tags, and
\* they are the most recent raw tags in the order of arrival.
C34_SlidingWindow ==
    /\ Len(gesture_history) <= 5
    /\ gesture_history =
          LastOf(RawTags, IF Len(RawTags) < 5 THEN Len(RawTags) ELSE 5)

\* C34: a sixth tag has arrived and pushed out a first tag different from
\* the second.
C34_Witness ==
    /\ Len(RawTags) > 5
    /\ RawTags[1] # RawTags[2]
    /\ gesture_history[1] = RawTags[2]

FirstAt(h, tag) == CHOOSE k \in 1..Len(h) : h[k] = tag /\ \A m \in 1..(k - 1) : h[m] # tag
TagsIn(h) == {h[k] : k \in 1..Len(h)}

\* C35: the tag returned by a call that classified a hand has the highest
\* count in the window, and among the tags that share the highest count it
\* is the one whose first occurrence in the window is the earliest.
C35_MajorityVote ==
    Classified =>
        /\ returned \in TagsIn(gesture_history)
        /\ \A tag \in TagsIn(gesture_history) :
              \/ CountOf(gesture_history, tag) < CountOf(gesture_history, returned)
              \/ /\ CountOf(gesture_history, tag) = CountOf(gesture_history, returned)
                 /\ FirstAt(gesture_history, returned) <= FirstAt(gesture_history, tag)

\* C35: in a full window two tags share the highest count, and the call
\* returned the one seen first, which is not the tag it has just added.
C35_Witness ==
    /\ Classified
    /\ Len(gesture_history) = 5
    /\ returned # LastRaw
    /\ CountOf(gesture_history, LastRaw) = CountOf(gesture_history, returned)

(***************************************************************************)
(* Frames with two hands, SpecHands.                                       *)
(***************************************************************************)
InitHands == CamInit /\ DbIdle /\ GateInit /\ NormIdle /\ StoreIdle /\ ResIdle
    /\ TrackIdle /\ HandsInit /\ TickIdle
NextHands == ProcessFrame
SpecHands == InitHands /\ [][NextHands]_vars

\* C36: the stabilized tag and the trigger decision produced for the first
\* hand are the same in two executions that saw the same first hand in
\* every frame, whatever the second hands were.
C36_PerHandIndependence ==
    /\ exec_a.tag = exec_b.tag
    /\ exec_a.fired = exec_b.fired

(***************************************************************************)
(* The camera again: the number of acquisition threads.                    *)
(***************************************************************************)
\* thread t is inside the while loop of _update_frame
InFrameLoop(t) == pc[t] \in {"loop", "read", "drain", "put"}

\* C37: at most one acquisition thread is running its frame loop, also after
\* re-initializations of the camera.
C37_SingleAcquisitionThread ==
    Cardinality({t \in Threads : InFrameLoop(t)}) <= 1

(***************************************************************************)
(* The camera toggle, SpecTick.                                            *)
(***************************************************************************)
InitTick == CamInit /\ DbIdle /\ GateInit /\ NormIdle /\ StoreIdle /\ ResIdle
    /\ TrackIdle /\ HandsIdle /\ TickInit
NextTick == OnToggleCamera \/ TimerFires
SpecTick == InitTick /\ [][NextTick]_vars

\* C38: after any sequence of toggles and timer callbacks at most one
\* _process_frame callback is pending in the event loop, and a callback that
\* runs while the pipeline is stopped schedules nothing.
C38_SingleTickChain ==
    /\ [](Len(after_queue) <= 1)
    /\ [][(~is_camera_running /\ ticks' # ticks)
             => Len(after_queue') < Len(after_queue)]_vars

(***************************************************************************)
(* The library and the store file again.                                   *)
(***************************************************************************)
\* C39: the library is changed only by add_gesture and delete_gesture (and
\* by the load at start-up, which has run before the first call).
C39_LibraryFrameCondition ==
    [][gestures' # gestures => last_call'.op \in {"add", "delete"}]_vars

\* C40: after _save_gestures has returned, with success or with a failure
\* at any of its steps, the store file holds the complete previous document
\* or the complete new one.
C40_AtomicReplace ==
    last_save.outcome # "none" =>
        \/ last_save.after = last_save.before
        \/ last_save.outcome = "ok" /\ last_save.after.kind = "doc"

(***************************************************************************)
(* The choice of the resolution, SpecResolution.                           *)
(***************************************************************************)
InitResolution ==
    CamInit /\ DbIdle /\ GateInit /\ NormIdle /\ StoreIdle /\ ResInit
    /\ TrackIdle /\ HandsIdle /\ TickIdle
NextResolution == TryResolution \/ KeepDefault \/ StoreResolution
SpecResolution == InitResolution /\ [][NextResolution]_vars

\* the positions of the configured list the device honours
HonouredAt == {i \in 1..Len(resolutions) : resolutions[i] \in honoured}
FirstHonoured == CHOOSE i \in HonouredAt : \A j \in HonouredAt : i <= j

\* C23: the configured resolutions are requested in list order and the
\* first one the device reports back exactly is accepted and recorded as
\* frame_width and frame_height; if the device honours none, the recorded
\* resolution is the device's default; in both cases _init_camera goes on
\* to start the acquisition thread.  For the list [(1920,1080),(640,360)]
\* and a device honouring only (640,360) the result is (640,360).
C23_ResolutionNegotiation ==
    /\ \A k \in 1..Len(requests) : requests[k] = resolutions[k]
    /\ res_pc \in {"store", "start"} =>
          IF HonouredAt # {}
          THEN /\ success
               /\ Len(requests) = FirstHonoured
               /\ device_res = resolutions[FirstHonoured]
          ELSE /\ ~success
               /\ requests = resolutions
               /\ device_res = device_default
    /\ res_pc = "start" =>
          /\ <<frame_width, frame_height>> = device_res
          /\ (resolutions = ShortResolutions /\ honoured = {<<640, 360>>})
                => (frame_width = 640 /\ frame_height = 360)
    /\ res_pc \in {"negotiate", "store", "start"}

\* C23 witness: the list [(1920,1080),(640,360)] on a device that reports
\* 1920x1200 for the first request and honours the second: 640x360 is
\* recorded after two requests.
C23_Witness ==
    /\ res_pc = "start"
    /\ resolutions = ShortResolutions
    /\ honoured = {<<640, 360>>}
    /\ device_default = <<1920, 1200>>
    /\ Len(requests) = 1 + 1
    /\ <<frame_width, frame_height>> = <<640, 360>>

Init == CamInit /\ DbIdle /\ GateInit /\ NormIdle /\ StoreIdle /\ ResIdle
    /\ TrackIdle /\ HandsIdle /\ TickIdle
Next == CamNext
Spec == Init /\ [][Next]_vars

=============================================================================
